---- MODULE Spec2Model ----
(***************************************************************************)
(* empa-tk: GPU data-parallel primitives.  The model covers the host-side  *)
(* encoders (src/empa-tk/src/...) and the kernels they dispatch.  The      *)
(* host encoders are translated from the Rust sources; the WGSL kernels    *)
(* are not part of the source tree and are modelled from sections 4.1-4.8  *)
(* of the specification, one action per kernel step of one workgroup.      *)
(*                                                                         *)
(* A command stream is recorded by an encode and then executed by the      *)
(* device in queue order (`queue`); a dispatch command launches its        *)
(* workgroups (`wg`), whose steps interleave freely.                       *)
(***************************************************************************)
EXTENDS Integers, Sequences, FiniteSets, TLC

VARIABLES
    shader,             \* which pipeline the instance was initialised with
    data,               \* the caller's primary buffer: scan data / sort keys (0-based)
    input,              \* contents of `data` when the encode was recorded
    count,              \* value of the count uniform read by the kernels
    dispatch_indirect,  \* whether the caller passed a count
    group_state,        \* group_state of PrefixSum / PrefixSumExclusive / BucketScatter(By)
    group_counter,      \* group_counter of the same instance
    dispatch,           \* PrefixSum.dispatch.count_x (indirect record)
    queue,              \* recorded commands not yet retired
    wg,                 \* private state of the workgroups of the running kernel
    encodes,            \* number of encodes recorded on this instance
    temporary_storage,  \* RadixSortInput.temporary_storage / temporary_key_storage
    values,             \* RadixSortByInput.values
    temporary_values,   \* RadixSortByInput.temporary_value_storage
    global_bucket_data, \* RadixSort.global_bucket_data: H[pass][digit]
    histogram_dispatch, \* RadixSort.histogram_dispatch.count_x
    scatter_dispatch,   \* RadixSort.scatter_dispatch.count_x
    run_starts,         \* FindRunsOutput.run_starts
    run_count,          \* FindRunsOutput.run_count
    find_runs_dispatch, \* FindRuns.dispatch.count_x
    by,                 \* GatherByInput.gather_by / ScatterByInput.scatter_by
    output,             \* the output view of GatherBy::encode / ScatterBy::encode
    value_size,         \* mem::size_of::<V>() of the value type of the instance
    code,               \* the shader source init_internal has put together
    panic,              \* the message of the panic that ended the program, or ""
    key_type,           \* the key type of the sort: "u32", "i32" or "f32"
    key_bits,           \* bit patterns of two keys
    canonical,          \* their patterns as the digits are extracted from them
    restored            \* the patterns the last pass writes out

\* State of the radix sort instances; the scan leaves it alone.
sortVars == <<temporary_storage, values, temporary_values, global_bucket_data,
              histogram_dispatch, scatter_dispatch>>

\* State of the find-runs, gather and scatter instances; the scan and the sort
\* leave it alone.
auxVars == <<run_starts, run_count, find_runs_dispatch, by, output>>

\* The value type an instance is specialised to; no encode and no device step
\* changes it.
keyVars == <<key_type, key_bits, canonical, restored>>

typeVars == <<value_size, code, panic, keyVars>>

vars == <<shader, data, input, count, dispatch_indirect, group_state,
          group_counter, dispatch, queue, wg, encodes, sortVars, auxVars, typeVars>>

----------------------------------------------------------------------------
(* Bounds of the model. *)

\* Elements per workgroup tile of the scan.  The source fixes
\* SEGMENT_SIZE = GROUPS_SIZE * VALUES_PER_THREAD = 256 * 8; the model scales
\* the tile down so that several tiles fit in a small array.
SEGMENT_SIZE == 2

\* Largest data buffer length handed to a scan encode.
MaxLen == 5

\* Largest element value of a scan input.
MaxVal == 1

\* Encodes recorded on one instance.
MaxEncodes == 2

\* Bits per radix digit.  The source fixes RADIX_SIZE = 8 (256 digits); the
\* model scales the digit down, keeping RADIX_DIGITS = 2^RADIX_SIZE and the
\* four passes, so that keys are RADIX_GROUPS * RADIX_SIZE bits wide.
RADIX_SIZE == 1

\* Elements per workgroup tile of the bucket histogram, the bucket scatter and
\* the bucket scatter-by (256 * 4 in the source), scaled down like SEGMENT_SIZE.
BUCKET_HISTOGRAM_SEGMENT_SIZE == 2
BUCKET_SCATTER_SEGMENT_SIZE == 2
BUCKET_SCATTER_BY_SEGMENT_SIZE == 2

\* Largest key buffer length handed to a sort encode.
MaxSortLen == 3

\* Bits of the fraction of a float key (23 in a 32-bit float); the bits
\* between the fraction and the sign are the exponent.
MANTISSA_BITS == 1

\* Largest size in bytes of a value type.
MaxValueSize == 8

\* Threads per workgroup of the gather and scatter kernels.  The sources fix
\* GROUP_SIZE = 256; the model scales it down.
GROUP_SIZE == 2

\* Largest index buffer length handed to a gather or scatter encode.
MaxPermuteLen == 3

\* Threads per workgroup of the mark and collect kernels of find-runs.  The
\* source fixes GROUPS_SIZE = 256; the model scales it down.
GROUPS_SIZE == 2

\* Largest data buffer length handed to a find-runs encode.
MaxRunsLen == 4

\* Encodes recorded on one sort instance (each runs four scatter passes on the
\* same group state and group counter).
MaxSortEncodes == 1

----------------------------------------------------------------------------
(* Arithmetic of the 32-bit unsigned words the buffers hold.  Every value  *)
(* of the model stays below MaxLen * MaxVal + MaxLen, far from 2^32, so    *)
(* u32 addition is integer addition here.                                  *)

Add32(a, b) == a + b

DivCeil(a, b) == (a + b - 1) \div b

RECURSIVE SumTo(_, _, _)
\* f[lo] + ... + f[hi - 1]
SumTo(f, lo, hi) == IF hi <= lo THEN 0 ELSE Add32(SumTo(f, lo, hi - 1), f[hi - 1])

Arrays(len, maxv) == [0 .. len - 1 -> 0 .. maxv]

BufLen(buf) == Cardinality(DOMAIN buf)

----------------------------------------------------------------------------
(* Constants of the radix sort (radix_sort/mod.rs). *)

RADIX_GROUPS == 4
RADIX_DIGITS == 2 ^ RADIX_SIZE

Digits == 0 .. RADIX_DIGITS - 1

\* GroupStatus of bucket_scatter and bucket_scatter_by.
NotReady == 0
LocalOffset == 1
GlobalOffset == 2

\* Mutant of PackedData: the status is packed two bits too low, over the top of
\* the value field.
PackedDataOverlap(status, value) ==
    [status |-> (status \div 4) % 4,
     value |-> (status * (2 ^ 28) + value) % (2 ^ 30)]

\* GroupState.packed_data: one 32-bit word per digit, held as its two bit
\* fields, bits 31..30 (word >> 30) and bits 29..0 (word & 0x3FFFFFFF).
PackedData(status, value) == [status |-> status % 4, value |-> value % (2 ^ 30)]

\* The pipelines of RadixSort::init_u32 and RadixSortBy::init_u32.
BUCKET_SCATTER_SHADER_U32 == "bucket_scatter/shader_u32.wgsl"
SHADER_TEMPLATE_U32 == "bucket_scatter_by/shader_template_u32.wgsl"

SortShaders == {BUCKET_SCATTER_SHADER_U32, SHADER_TEMPLATE_U32}

\* let status = self.packed_data >> 30;
UnpackStatus(word) == word.status

\* let value = self.packed_data & 0x3FFFFFFF;
UnpackValue(word) == word.value

----------------------------------------------------------------------------
(* Status tags of the scan (specification 3, 4.1). *)

TAG_EMPTY == 0
TAG_LOCAL == 1
TAG_GLOBAL == 2

\* The three pipelines: PrefixSum::init_inclusive_u32, PrefixSum::init_exclusive_u32
\* and PrefixSumExclusive::init_u32.
INCLUSIVE_SHADER_U32 == "inclusive_shader_u32.wgsl"
EXCLUSIVE_SHADER_U32 == "exclusive_shader_u32.wgsl"
SHADER_U32 == "exclusive/shader_u32.wgsl"

ScanShaders == {INCLUSIVE_SHADER_U32, EXCLUSIVE_SHADER_U32, SHADER_U32}

\* The pipeline of FindRuns::init_u32 (MarkRunStarts::init_u32).
MARK_RUN_STARTS_SHADER_U32 == "find_runs/mark_run_starts/shader_u32.wgsl"

\* PrefixSum's GroupState {state_0, state_1}: a tagged value, read and written
\* as one unit (state_0 the tag, state_1 the value).
\* PrefixSumExclusive's GroupState {aggregate, inclusive_prefix, status}: three
\* words, written and read one word at a time.
WordGranular == shader = SHADER_U32

\* BucketScatter's GroupState {packed_data: [u32; RADIX_DIGITS]}: one packed
\* word per digit, each read and written as one atomic word.
ZeroedGroupState ==
    IF shader \in SortShaders THEN [d \in Digits |-> PackedData(0, 0)]
    ELSE IF WordGranular
    THEN [aggregate |-> 0, inclusive_prefix |-> 0, status |-> 0]
    ELSE [state_0 |-> 0, state_1 |-> 0]

\* device.create_slice_buffer_zeroed(len, ..)
CreateSliceBufferZeroed(len) == [g \in 0 .. len - 1 |-> ZeroedGroupState]

Tag(rec) == IF WordGranular THEN rec.status ELSE rec.state_0

\* The value a reader that saw tag `t` takes from record `rec`.
ValueFor(rec, t) ==
    IF WordGranular
    THEN (IF t = TAG_GLOBAL THEN rec.inclusive_prefix ELSE rec.aggregate)
    ELSE rec.state_1

----------------------------------------------------------------------------
(* Host side: PrefixSum::encode and PrefixSumExclusive::encode. *)

\* PrefixSumInput.count = None, as a value outside the u32 counts.
NoCount == -1

\* Mutant of CountUniform: the fallback count misses the last element.
CountUniformShort(c, len) == IF c # NoCount THEN c ELSE len - 1

\* let count = count.unwrap_or_else(|| create_buffer(data.len() as u32, ..).uniform());
CountUniform(c, len) == IF c # NoCount THEN c ELSE len

\* Mutant of Workgroups: the division rounds down, dropping a partial tile.
WorkgroupsFloor(len) == len \div SEGMENT_SIZE

\* let workgroups = (data.len() as u32).div_ceil(SEGMENT_SIZE);
Workgroups(len) == DivCeil(len, SEGMENT_SIZE)

\* Mutant of GrowGroupState: the buffer is always made anew, at the size of
\* this encode.
GrowGroupStateExact(gs, workgroups) == CreateSliceBufferZeroed(workgroups)

\* if self.group_state.len() < workgroups { self.group_state = zeroed(workgroups) }
GrowGroupState(gs, workgroups) ==
    IF BufLen(gs) < workgroups THEN CreateSliceBufferZeroed(workgroups) ELSE gs

CmdGenerateDispatch == [op |-> "generate_dispatch"]
CmdClearGroupCounter == [op |-> "clear_buffer(group_counter)"]
CmdClearGroupState == [op |-> "clear_buffer_slice(group_state)"]
CmdDispatchWorkgroups(x) ==
    [op |-> "dispatch_workgroups", kernel |-> "prefix_sum", count_x |-> x]
CmdDispatchWorkgroupsIndirect ==
    [op |-> "dispatch_workgroups_indirect", kernel |-> "prefix_sum"]

\* Mutant of PrefixSumCommands: the group-state clear is not recorded.
PrefixSumCommandsNoStateClear(indirect, workgroups) ==
    (IF indirect THEN <<CmdGenerateDispatch>> ELSE <<>>)
    \o <<CmdClearGroupCounter>>
    \o <<IF indirect THEN CmdDispatchWorkgroupsIndirect
         ELSE CmdDispatchWorkgroups(workgroups)>>

\* Mutant of PrefixSumCommands: the dispatch generator is not recorded.
PrefixSumCommandsNoGenerator(indirect, workgroups) ==
    <<CmdClearGroupCounter, CmdClearGroupState>>
    \o <<IF indirect THEN CmdDispatchWorkgroupsIndirect
         ELSE CmdDispatchWorkgroups(workgroups)>>

\* The commands PrefixSum::encode records, in order.
PrefixSumCommands(indirect, workgroups) ==
    (IF indirect THEN <<CmdGenerateDispatch>> ELSE <<>>)
    \o <<CmdClearGroupCounter, CmdClearGroupState>>
    \o <<IF indirect THEN CmdDispatchWorkgroupsIndirect
         ELSE CmdDispatchWorkgroups(workgroups)>>

\* The commands PrefixSumExclusive::encode records, in order.
PrefixSumExclusiveCommands(workgroups) ==
    <<CmdClearGroupCounter, CmdClearGroupState, CmdDispatchWorkgroups(workgroups)>>

Idle == queue = <<>> /\ wg = <<>>

\* PrefixSum::encode(encoder, PrefixSumInput { data, count })
PrefixSumEncode(buf, c) ==
    /\ shader \in {INCLUSIVE_SHADER_U32, EXCLUSIVE_SHADER_U32}
    /\ Idle
    /\ encodes < MaxEncodes
    /\ LET indirect == c # NoCount
           workgroups == Workgroups(BufLen(buf))
       IN  /\ dispatch_indirect' = indirect
           /\ count' = CountUniform(c, BufLen(buf))
           /\ group_state' = GrowGroupState(group_state, workgroups)
           /\ queue' = PrefixSumCommands(indirect, workgroups)
    /\ data' = buf
    /\ input' = buf
    /\ encodes' = encodes + 1
    /\ UNCHANGED <<typeVars, auxVars, sortVars, shader, group_counter, dispatch, wg>>

\* PrefixSumExclusive::encode(encoder, data)
PrefixSumExclusiveEncode(buf) ==
    /\ shader = SHADER_U32
    /\ Idle
    /\ encodes < MaxEncodes
    /\ LET workgroups == Workgroups(BufLen(buf))
       IN  /\ group_state' = GrowGroupState(group_state, workgroups)
           /\ queue' = PrefixSumExclusiveCommands(workgroups)
    /\ dispatch_indirect' = FALSE
    /\ count' = BufLen(buf)
    /\ data' = buf
    /\ input' = buf
    /\ encodes' = encodes + 1
    /\ UNCHANGED <<typeVars, auxVars, sortVars, shader, group_counter, dispatch, wg>>

----------------------------------------------------------------------------
(* Host side: RadixSort::encode and RadixSortBy::encode. *)

CmdGenerateDispatches == [op |-> "generate_dispatches"]
CmdClearGlobalBucketData == [op |-> "clear_buffer(global_bucket_data)"]

\* Mutant of CmdBucketHistogram: the histogram is always dispatched directly.
CmdBucketHistogramDirect(indirect, fallback_count) ==
    [op |-> "dispatch_workgroups",
     kernel |-> "bucket_histogram",
     count_x |-> DivCeil(fallback_count, BUCKET_HISTOGRAM_SEGMENT_SIZE)]

\* BucketHistogram::encode: indirect on histogram_dispatch, or else
\* fallback_count.div_ceil(BUCKET_HISTOGRAM_SEGMENT_SIZE) workgroups.
CmdBucketHistogram(indirect, fallback_count) ==
    [op |-> IF indirect THEN "dispatch_workgroups_indirect" ELSE "dispatch_workgroups",
     kernel |-> "bucket_histogram",
     count_x |-> DivCeil(fallback_count, BUCKET_HISTOGRAM_SEGMENT_SIZE)]

\* Mutant of CmdGlobalBucketOffsets: one workgroup is dispatched, not one per row.
CmdGlobalBucketOffsetsOneRow ==
    [op |-> "dispatch_workgroups", kernel |-> "global_bucket_offsets",
     count_x |-> 1]

\* GlobalBucketOffsets::encode: RADIX_GROUPS workgroups.
CmdGlobalBucketOffsets ==
    [op |-> "dispatch_workgroups", kernel |-> "global_bucket_offsets",
     count_x |-> RADIX_GROUPS]

\* Elements per tile of the scatter kernel of the instance.
ScatterSegmentSize ==
    IF shader = SHADER_TEMPLATE_U32 THEN BUCKET_SCATTER_BY_SEGMENT_SIZE
    ELSE BUCKET_SCATTER_SEGMENT_SIZE

\* let fallback_groups = fallback_count.div_ceil(BUCKET_SCATTER_SEGMENT_SIZE);
FallbackGroups(fallback_count) == DivCeil(fallback_count, ScatterSegmentSize)

\* Mutant of Uniforms: the passes share one uniforms buffer, which holds what
\* the last recorded pass wrote when the first pass executes.
UniformsShared(radix_group) ==
    [radix_offset |-> RADIX_SIZE * (RADIX_GROUPS - 1), radix_group |-> RADIX_GROUPS - 1]

\* Mutant of Uniforms: every pass extracts the digit of pass 0.
UniformsFirstDigit(radix_group) ==
    [radix_offset |-> 0, radix_group |-> radix_group]

\* let radix_offset = RADIX_SIZE * radix_group; Uniforms { radix_offset, radix_group }
Uniforms(radix_group) ==
    [radix_offset |-> RADIX_SIZE * radix_group, radix_group |-> radix_group]

\* Mutant of PingPong: every pass reads the primary and writes the temporary buffers.
PingPongNever(i) ==
    [keys_in |-> "data", keys_out |-> "temporary_storage",
     values_in |-> "values", values_out |-> "temporary_values"]

\* Mutant of PingPong: the keys alternate, the values do not.
PingPongKeysOnly(i) ==
    IF i % 2 = 0
    THEN [keys_in |-> "data", keys_out |-> "temporary_storage",
          values_in |-> "values", values_out |-> "temporary_values"]
    ELSE [keys_in |-> "temporary_storage", keys_out |-> "data",
          values_in |-> "values", values_out |-> "temporary_values"]

\* Mutant of PingPong: the parity is reversed.
PingPongSwapped(i) ==
    IF i % 2 = 1
    THEN [keys_in |-> "data", keys_out |-> "temporary_storage",
          values_in |-> "values", values_out |-> "temporary_values"]
    ELSE [keys_in |-> "temporary_storage", keys_out |-> "data",
          values_in |-> "temporary_values", values_out |-> "values"]

\* if (i & 1) == 0 { data_a -> data_b } else { data_b -> data_a }, keys and
\* values alike (RadixSort binds no values).
PingPong(i) ==
    IF i % 2 = 0
    THEN [keys_in |-> "data", keys_out |-> "temporary_storage",
          values_in |-> "values", values_out |-> "temporary_values"]
    ELSE [keys_in |-> "temporary_storage", keys_out |-> "data",
          values_in |-> "temporary_values", values_out |-> "values"]

\* The dispatch BucketScatter::encode / BucketScatterBy::encode records.
CmdBucketScatter(bind, radix_group, indirect, fallback_count) ==
    [op |-> IF indirect THEN "dispatch_workgroups_indirect" ELSE "dispatch_workgroups",
     kernel |-> "bucket_scatter",
     uniforms |-> Uniforms(radix_group),
     bind |-> bind,
     count_x |-> FallbackGroups(fallback_count)]

\* Mutant of BucketScatterEncode: the group state is not cleared between passes.
BucketScatterEncodeNoStateClear(bind, radix_group, indirect, fallback_count) ==
    <<CmdClearGroupCounter,
      CmdBucketScatter(bind, radix_group, indirect, fallback_count)>>

\* Mutant of BucketScatterEncode: the group counter is not cleared between passes.
BucketScatterEncodeNoCounterClear(bind, radix_group, indirect, fallback_count) ==
    <<CmdClearGroupState,
      CmdBucketScatter(bind, radix_group, indirect, fallback_count)>>

\* The commands of one BucketScatter::encode / BucketScatterBy::encode.
BucketScatterEncode(bind, radix_group, indirect, fallback_count) ==
    <<CmdClearGroupCounter, CmdClearGroupState,
      CmdBucketScatter(bind, radix_group, indirect, fallback_count)>>

RECURSIVE ScatterPasses(_, _, _)
\* for i in 0..radix_groups { ... }: passes 0 .. radix_groups - 1 in order.
ScatterPasses(radix_groups, indirect, fallback_count) ==
    IF radix_groups = 0 THEN <<>>
    ELSE ScatterPasses(radix_groups - 1, indirect, fallback_count)
         \o BucketScatterEncode(PingPong(radix_groups - 1), radix_groups - 1,
                                indirect, fallback_count)

\* Mutant of RadixSortCommands: the clear of the histogram matrix is not recorded.
RadixSortCommandsNoClear(indirect, fallback_count, radix_groups) ==
    (IF indirect THEN <<CmdGenerateDispatches>> ELSE <<>>)
    \o <<CmdBucketHistogram(indirect, fallback_count),
         CmdGlobalBucketOffsets>>
    \o ScatterPasses(radix_groups, indirect, fallback_count)

\* Mutant of RadixSortCommands: the offsets kernel is recorded after the passes.
RadixSortCommandsOffsetsLast(indirect, fallback_count, radix_groups) ==
    (IF indirect THEN <<CmdGenerateDispatches>> ELSE <<>>)
    \o <<CmdClearGlobalBucketData,
         CmdBucketHistogram(indirect, fallback_count)>>
    \o ScatterPasses(radix_groups, indirect, fallback_count)
    \o <<CmdGlobalBucketOffsets>>

\* The commands RadixSort::encode_internal / RadixSortBy::encode_internal record.
RadixSortCommands(indirect, fallback_count, radix_groups) ==
    (IF indirect THEN <<CmdGenerateDispatches>> ELSE <<>>)
    \o <<CmdClearGlobalBucketData,
         CmdBucketHistogram(indirect, fallback_count),
         CmdGlobalBucketOffsets>>
    \o ScatterPasses(radix_groups, indirect, fallback_count)

\* RadixSort::encode_internal(encoder, RadixSortInput { data, temporary_storage,
\* count }, radix_groups)
RadixSortEncode(buf, tmp, c, radix_groups) ==
    /\ shader = BUCKET_SCATTER_SHADER_U32
    /\ Idle
    /\ LET indirect == c # NoCount
           fallback_count == BufLen(buf)
       IN  /\ dispatch_indirect' = indirect
           /\ count' = CountUniform(c, BufLen(buf))
           /\ group_state' = GrowGroupState(group_state, FallbackGroups(fallback_count))
           /\ queue' = RadixSortCommands(indirect, fallback_count, radix_groups)
    /\ data' = buf
    /\ input' = buf
    /\ temporary_storage' = tmp
    /\ encodes' = encodes + 1
    /\ UNCHANGED <<typeVars, auxVars, shader, group_counter, dispatch, wg, values, temporary_values,
                   global_bucket_data, histogram_dispatch, scatter_dispatch>>

\* RadixSortBy::encode_internal(encoder, RadixSortByInput { keys, values,
\* temporary_key_storage, temporary_value_storage, count }, radix_groups)
RadixSortByEncode(keys, vals, tmp_keys, tmp_vals, c, radix_groups) ==
    /\ shader = SHADER_TEMPLATE_U32
    /\ Idle
    /\ LET indirect == c # NoCount
           fallback_count == BufLen(keys)
       IN  /\ dispatch_indirect' = indirect
           /\ count' = CountUniform(c, fallback_count)
           /\ group_state' = GrowGroupState(group_state, FallbackGroups(fallback_count))
           /\ queue' = RadixSortCommands(indirect, fallback_count, radix_groups)
    /\ data' = keys
    /\ input' = keys
    /\ values' = vals
    /\ temporary_storage' = tmp_keys
    /\ temporary_values' = tmp_vals
    /\ encodes' = encodes + 1
    /\ UNCHANGED <<typeVars, auxVars, shader, group_counter, dispatch, wg,
                   global_bucket_data, histogram_dispatch, scatter_dispatch>>

\* Mutant of RadixSortEncodeHalfPrecision: one scatter pass is recorded.
RadixSortEncodeHalfPrecisionOnePass(buf, tmp, c) ==
    RadixSortEncode(buf, tmp, c, 1)

\* RadixSort::encode_half_precision: self.encode_internal(encoder, input, 2)
RadixSortEncodeHalfPrecision(buf, tmp, c) ==
    RadixSortEncode(buf, tmp, c, 2)

\* RadixSortBy::encode_half_precision: self.encode_internal(encoder, input, 2)
RadixSortByEncodeHalfPrecision(keys, vals, tmp_keys, tmp_vals, c) ==
    RadixSortByEncode(keys, vals, tmp_keys, tmp_vals, c, 2)

----------------------------------------------------------------------------
(* Device side: commands execute in queue order. *)

Head0 == Head(queue)

\* The dispatch generator (specification 4.2): one thread writes ceil(n / s).
GenerateDispatch ==
    /\ queue # <<>> /\ Head0 = CmdGenerateDispatch
    /\ dispatch' = DivCeil(count, SEGMENT_SIZE)
    /\ queue' = Tail(queue)
    /\ UNCHANGED <<typeVars, auxVars, sortVars, shader, data, input, count, dispatch_indirect, group_state,
                   group_counter, wg, encodes>>

\* Mutant of ClearGroupCounter: the counter keeps its value from the last use.
ClearGroupCounterSkipped ==
    /\ queue # <<>> /\ Head0 = CmdClearGroupCounter
    /\ queue' = Tail(queue)
    /\ UNCHANGED <<typeVars, auxVars, sortVars, shader, data, input, count, dispatch_indirect, group_state,
                   group_counter, dispatch, wg, encodes>>

\* encoder.clear_buffer(self.group_counter.view())
ClearGroupCounter ==
    /\ queue # <<>> /\ Head0 = CmdClearGroupCounter
    /\ group_counter' = 0
    /\ queue' = Tail(queue)
    /\ UNCHANGED <<typeVars, auxVars, sortVars, shader, data, input, count, dispatch_indirect, group_state,
                   dispatch, wg, encodes>>

\* Mutant of ClearGroupState: the records keep their content from the last use.
ClearGroupStateSkipped ==
    /\ queue # <<>> /\ Head0 = CmdClearGroupState
    /\ queue' = Tail(queue)
    /\ UNCHANGED <<typeVars, auxVars, sortVars, shader, data, input, count, dispatch_indirect, group_state,
                   group_counter, dispatch, wg, encodes>>

\* encoder.clear_buffer_slice(self.group_state.view())
ClearGroupState ==
    /\ queue # <<>> /\ Head0 = CmdClearGroupState
    /\ group_state' = CreateSliceBufferZeroed(BufLen(group_state))
    /\ queue' = Tail(queue)
    /\ UNCHANGED <<typeVars, auxVars, sortVars, shader, data, input, count, dispatch_indirect, group_counter,
                   dispatch, wg, encodes>>

IsDispatch(cmd) == cmd.op \in {"dispatch_workgroups", "dispatch_workgroups_indirect"}

\* The indirect record a kernel's dispatch reads.
\* Mutant of IndirectCount: the mark and collect kernels of find-runs launch
\* from the record of the embedded scan.
IndirectCountOneRecord(kernel) ==
    CASE kernel = "prefix_sum" -> dispatch
      [] kernel = "bucket_histogram" -> histogram_dispatch
      [] kernel = "bucket_scatter" -> scatter_dispatch
      [] kernel \in {"gather_by", "scatter_by"} -> dispatch
      [] kernel \in {"mark_run_starts", "collect_run_starts"} -> dispatch

\* The indirect record a kernel's dispatch reads.
IndirectCount(kernel) ==
    CASE kernel = "prefix_sum" -> dispatch
      [] kernel = "bucket_histogram" -> histogram_dispatch
      [] kernel = "bucket_scatter" -> scatter_dispatch
      [] kernel \in {"gather_by", "scatter_by"} -> dispatch
      [] kernel \in {"mark_run_starts", "collect_run_starts"} -> find_runs_dispatch

\* Workgroups the dispatch at the head of the queue launches.
LaunchCount(cmd) ==
    IF cmd.op = "dispatch_workgroups_indirect" THEN IndirectCount(cmd.kernel)
    ELSE cmd.count_x

\* Private state of a workgroup of the scan kernel before its first step.
NewWorkgroup == [pc |-> "start", id |-> 0, aggregate |-> 0, prefix |-> 0,
                 j |-> 0, seen |-> TAG_EMPTY, tile |-> <<>>]

\* Private state of a workgroup of the scatter kernel: one look-back lane per
\* digit (the thread that owns digit d), each with its own position.
NewScatterWorkgroup ==
    [pc |-> "start", id |-> 0, tile |-> <<>>,
     lane |-> [d \in Digits |-> [pc |-> "publish", j |-> 0, sum |-> 0]]]

\* The histogram and offsets kernels take the hardware workgroup index.
NewIndexedWorkgroup(kernel, w) == [pc |-> kernel, id |-> w - 1]

\* The threads of workgroup g of the gather and scatter kernels that are
\* below the count; the others return at once.
Threads(g) == {i \in g * GROUP_SIZE .. (g + 1) * GROUP_SIZE - 1 : i < count}

\* A workgroup of the scatter kernel: its threads write in any order, each
\* in a step of its own, so `pending` holds the threads still to write.
NewScatterByWorkgroup(w) ==
    [pc |-> IF Threads(w - 1) = {} THEN "done" ELSE "scatter_by",
     id |-> w - 1,
     pending |-> Threads(w - 1)]

\* The indices the threads of workgroup g of the mark and collect kernels own,
\* below the count.
RunThreads(g) == {i \in g * GROUPS_SIZE .. (g + 1) * GROUPS_SIZE - 1 : i < count}

\* A workgroup of the collect kernel: its threads run in any order, each in a
\* step of its own.
NewCollectWorkgroup(w) ==
    [pc |-> IF RunThreads(w - 1) = {} THEN "done" ELSE "collect_run_starts",
     id |-> w - 1,
     pending |-> RunThreads(w - 1)]

NewWorkgroupOf(kernel, w) ==
    CASE kernel = "prefix_sum" -> NewWorkgroup
      [] kernel = "collect_run_starts" -> NewCollectWorkgroup(w)
      [] kernel = "bucket_scatter" -> NewScatterWorkgroup
      [] kernel = "scatter_by" -> NewScatterByWorkgroup(w)
      [] OTHER -> NewIndexedWorkgroup(kernel, w)

\* The device starts the workgroups of the dispatch at the head of the queue.
Launch ==
    /\ queue # <<>> /\ IsDispatch(Head0)
    /\ wg = <<>>
    /\ LaunchCount(Head0) > 0
    /\ wg' = [w \in 1 .. LaunchCount(Head0) |-> NewWorkgroupOf(Head0.kernel, w)]
    /\ UNCHANGED <<typeVars, auxVars, sortVars, shader, data, input, count, dispatch_indirect, group_state,
                   group_counter, dispatch, queue, encodes>>

AllDone == \A w \in DOMAIN wg : wg[w].pc = "done"

\* The dispatch retires when all of its workgroups have finished (a dispatch of
\* zero workgroups retires at once).
Retire ==
    /\ queue # <<>> /\ IsDispatch(Head0)
    /\ \/ wg # <<>> /\ AllDone
       \/ wg = <<>> /\ LaunchCount(Head0) = 0
    /\ wg' = <<>>
    /\ queue' = Tail(queue)
    /\ UNCHANGED <<typeVars, auxVars, sortVars, shader, data, input, count, dispatch_indirect, group_state,
                   group_counter, dispatch, encodes>>

----------------------------------------------------------------------------
(* The scan kernel (specification 4.1), one action per step of a workgroup. *)

Running(w) == w \in DOMAIN wg

SetWg(w, rec) == [wg EXCEPT ![w] = rec]

\* Index into `data` of slot k of the tile of workgroup id g.
TileIndex(g, k) == g * SEGMENT_SIZE + k

\* Threads past the element count read the identity 0.
LoadTile(g) ==
    [k \in 0 .. SEGMENT_SIZE - 1 |->
        IF TileIndex(g, k) < count /\ TileIndex(g, k) \in DOMAIN data
        THEN data[TileIndex(g, k)] ELSE 0]

TileAggregate(tile) == SumTo(tile, 0, SEGMENT_SIZE)

\* The step that follows the acquisition of the ID: "load and reduce" in the
\* scan, "load tile" in the scatter.
AfterAcquire == IF Head0.kernel = "prefix_sum" THEN "reduce" ELSE "load"

\* Step 1: thread 0 atomically increments the group counter; the value
\* returned is the workgroup's ID.  The kernel never reads the hardware
\* workgroup index, so workgroups that have not started are interchangeable:
\* slot w stands for the w-th workgroup the hardware starts, whichever it is.
AcquireId(w) ==
    /\ Running(w) /\ wg[w].pc = "start"
    /\ \A v \in 1 .. w - 1 : wg[v].pc # "start"
    /\ wg' = SetWg(w, [wg[w] EXCEPT !.pc = AfterAcquire, !.id = group_counter])
    /\ group_counter' = Add32(group_counter, 1)
    /\ UNCHANGED <<typeVars, auxVars, sortVars, shader, data, input, count, dispatch_indirect, group_state,
                   dispatch, queue, encodes>>

\* Step 2: load the tile and reduce it to the tile aggregate a_g.
Reduce(w) ==
    /\ Running(w) /\ wg[w].pc = "reduce"
    /\ LET tile == LoadTile(wg[w].id)
       IN  wg' = SetWg(w, [wg[w] EXCEPT !.pc = "publish", !.tile = tile,
                                        !.aggregate = TileAggregate(tile)])
    /\ UNCHANGED <<typeVars, auxVars, sortVars, shader, data, input, count, dispatch_indirect, group_state,
                   group_counter, dispatch, queue, encodes>>

\* The record workgroup 0 publishes at once, and every workgroup at the end.
GlobalRecord(v) == [state_0 |-> TAG_GLOBAL, state_1 |-> v]

\* The record a workgroup g > 0 publishes before its look-back.
LocalRecord(v) == [state_0 |-> TAG_LOCAL, state_1 |-> v]

\* Where a workgroup goes after publishing its first record.
\* Mutant of AfterPublish: workgroup 0 takes no shortcut and starts a look-back
\* like every other workgroup.
AfterPublishLookBack(rec) ==
    [rec EXCEPT !.pc = "lookback", !.prefix = 0, !.j = rec.id - 1]

AfterPublish(rec) ==
    IF rec.id = 0
    THEN [rec EXCEPT !.pc = "write", !.prefix = 0]
    ELSE [rec EXCEPT !.pc = "lookback", !.prefix = 0, !.j = rec.id - 1]

\* Step 3 (tagged-value record): publish (GLOBAL, a_0) or (LOCAL, a_g).
Publish(w) ==
    /\ ~WordGranular
    /\ Running(w) /\ wg[w].pc = "publish"
    /\ wg[w].id \in DOMAIN group_state
    /\ group_state' = [group_state EXCEPT ![wg[w].id] =
           IF wg[w].id = 0 THEN GlobalRecord(wg[w].aggregate)
           ELSE LocalRecord(wg[w].aggregate)]
    /\ wg' = SetWg(w, AfterPublish(wg[w]))
    /\ UNCHANGED <<typeVars, auxVars, sortVars, shader, data, input, count, dispatch_indirect, group_counter,
                   dispatch, queue, encodes>>

\* Mutant of PublishOrder: the status word is published before the value word.
PublishOrderStatusFirst == <<"status", "value">>

\* Three-word record: the order in which the two words of a publication are
\* written.  The value word is written before the status word is published.
PublishOrder == <<"value", "status">>

\* The three-word record after `word` of the publication (tag t, value v) has
\* been written.
WriteWord(rec, word, t, v) ==
    IF word = "status" THEN [rec EXCEPT !.status = t]
    ELSE IF t = TAG_GLOBAL THEN [rec EXCEPT !.inclusive_prefix = v]
    ELSE [rec EXCEPT !.aggregate = v]

\* The tag a workgroup publishes first: GLOBAL for workgroup 0, LOCAL otherwise.
FirstTag(id) == IF id = 0 THEN TAG_GLOBAL ELSE TAG_LOCAL

\* Step 3 (three-word record), first word.
PublishValue(w) ==
    /\ WordGranular
    /\ Running(w) /\ wg[w].pc = "publish"
    /\ wg[w].id \in DOMAIN group_state
    /\ group_state' = [group_state EXCEPT ![wg[w].id] =
           WriteWord(@, PublishOrder[1], FirstTag(wg[w].id), wg[w].aggregate)]
    /\ wg' = SetWg(w, [wg[w] EXCEPT !.pc = "publish_status"])
    /\ UNCHANGED <<typeVars, auxVars, sortVars, shader, data, input, count, dispatch_indirect, group_counter,
                   dispatch, queue, encodes>>

\* Step 3 (three-word record), second word.
PublishStatus(w) ==
    /\ WordGranular
    /\ Running(w) /\ wg[w].pc = "publish_status"
    /\ group_state' = [group_state EXCEPT ![wg[w].id] =
           WriteWord(@, PublishOrder[2], FirstTag(wg[w].id), wg[w].aggregate)]
    /\ wg' = SetWg(w, AfterPublish(wg[w]))
    /\ UNCHANGED <<typeVars, auxVars, sortVars, shader, data, input, count, dispatch_indirect, group_counter,
                   dispatch, queue, encodes>>

\* Mutant of Accumulate: after a LOCAL record the look-back stays at index j.
AccumulateNoAdvance(rec, t, v) ==
    IF t = TAG_GLOBAL
    THEN [rec EXCEPT !.pc = "publish_global", !.prefix = Add32(rec.prefix, v),
                     !.seen = TAG_EMPTY]
    ELSE [rec EXCEPT !.pc = "lookback", !.prefix = Add32(rec.prefix, v),
                     !.seen = TAG_EMPTY]

\* The look-back's reaction to the tag t and value v read at index j.
Accumulate(rec, t, v) ==
    IF t = TAG_GLOBAL
    THEN [rec EXCEPT !.pc = "publish_global", !.prefix = Add32(rec.prefix, v),
                     !.seen = TAG_EMPTY]
    ELSE [rec EXCEPT !.pc = "lookback", !.prefix = Add32(rec.prefix, v),
                     !.j = rec.j - 1, !.seen = TAG_EMPTY]

\* Step 4 (tagged-value record): inspect predecessor j.  EMPTY: spin (reread).
LookBack(w) ==
    /\ ~WordGranular
    /\ Running(w) /\ wg[w].pc = "lookback"
    /\ wg[w].j \in DOMAIN group_state
    /\ LET rec == group_state[wg[w].j]
       IN  wg' = IF Tag(rec) = TAG_EMPTY THEN wg
                 ELSE SetWg(w, Accumulate(wg[w], Tag(rec), ValueFor(rec, Tag(rec))))
    /\ UNCHANGED <<typeVars, auxVars, sortVars, shader, data, input, count, dispatch_indirect, group_state,
                   group_counter, dispatch, queue, encodes>>

\* Step 4 (three-word record), first half: read the status word of
\* predecessor j.  EMPTY: spin (reread).
ReadStatus(w) ==
    /\ WordGranular
    /\ Running(w) /\ wg[w].pc = "lookback"
    /\ wg[w].j \in DOMAIN group_state
    /\ LET t == Tag(group_state[wg[w].j])
       IN  wg' = IF t = TAG_EMPTY THEN wg
                 ELSE SetWg(w, [wg[w] EXCEPT !.pc = "read_value", !.seen = t])
    /\ UNCHANGED <<typeVars, auxVars, sortVars, shader, data, input, count, dispatch_indirect, group_state,
                   group_counter, dispatch, queue, encodes>>

\* Step 4 (three-word record), second half: read the value word the status
\* read selected.
ReadValue(w) ==
    /\ WordGranular
    /\ Running(w) /\ wg[w].pc = "read_value"
    /\ wg' = SetWg(w, Accumulate(wg[w], wg[w].seen,
                                 ValueFor(group_state[wg[w].j], wg[w].seen)))
    /\ UNCHANGED <<typeVars, auxVars, sortVars, shader, data, input, count, dispatch_indirect, group_state,
                   group_counter, dispatch, queue, encodes>>

\* Step 5 (tagged-value record): publish (GLOBAL, p + a_g).
PublishGlobal(w) ==
    /\ ~WordGranular
    /\ Running(w) /\ wg[w].pc = "publish_global"
    /\ group_state' = [group_state EXCEPT ![wg[w].id] =
           GlobalRecord(Add32(wg[w].prefix, wg[w].aggregate))]
    /\ wg' = SetWg(w, [wg[w] EXCEPT !.pc = "write"])
    /\ UNCHANGED <<typeVars, auxVars, sortVars, shader, data, input, count, dispatch_indirect, group_counter,
                   dispatch, queue, encodes>>

\* Step 5 (three-word record), first word.
PublishGlobalValue(w) ==
    /\ WordGranular
    /\ Running(w) /\ wg[w].pc = "publish_global"
    /\ group_state' = [group_state EXCEPT ![wg[w].id] =
           WriteWord(@, PublishOrder[1], TAG_GLOBAL,
                     Add32(wg[w].prefix, wg[w].aggregate))]
    /\ wg' = SetWg(w, [wg[w] EXCEPT !.pc = "publish_global_status"])
    /\ UNCHANGED <<typeVars, auxVars, sortVars, shader, data, input, count, dispatch_indirect, group_counter,
                   dispatch, queue, encodes>>

\* Step 5 (three-word record), second word.
PublishGlobalStatus(w) ==
    /\ WordGranular
    /\ Running(w) /\ wg[w].pc = "publish_global_status"
    /\ group_state' = [group_state EXCEPT ![wg[w].id] =
           WriteWord(@, PublishOrder[2], TAG_GLOBAL,
                     Add32(wg[w].prefix, wg[w].aggregate))]
    /\ wg' = SetWg(w, [wg[w] EXCEPT !.pc = "write"])
    /\ UNCHANGED <<typeVars, auxVars, sortVars, shader, data, input, count, dispatch_indirect, group_counter,
                   dispatch, queue, encodes>>

\* PrefixSum::init_inclusive_u32, also the scan FindRuns::init_internal embeds.
Inclusive == shader \in {INCLUSIVE_SHADER_U32, MARK_RUN_STARTS_SHADER_U32}

\* The value written to slot k of a tile: the exclusive prefix p of the tile
\* plus the tile-local scan, through k (inclusive) or up to k (exclusive).
OutValue(rec, k) ==
    Add32(rec.prefix, SumTo(rec.tile, 0, IF Inclusive THEN k + 1 ELSE k))

\* Step 6: write the tile back; threads past the element count write nothing.
WriteOut(w) ==
    /\ Running(w) /\ wg[w].pc = "write"
    /\ data' = [i \in DOMAIN data |->
           IF /\ i < count
              /\ i \in {TileIndex(wg[w].id, k) : k \in 0 .. SEGMENT_SIZE - 1}
           THEN OutValue(wg[w], i - TileIndex(wg[w].id, 0))
           ELSE data[i]]
    /\ wg' = SetWg(w, [wg[w] EXCEPT !.pc = "done", !.tile = <<>>])
    /\ UNCHANGED <<typeVars, auxVars, sortVars, shader, input, count, dispatch_indirect, group_state,
                   group_counter, dispatch, queue, encodes>>

ScanStep(w) ==
    \/ AcquireId(w)
    \/ Reduce(w)
    \/ Publish(w)
    \/ PublishValue(w)
    \/ PublishStatus(w)
    \/ LookBack(w)
    \/ ReadStatus(w)
    \/ ReadValue(w)
    \/ PublishGlobal(w)
    \/ PublishGlobalValue(w)
    \/ PublishGlobalStatus(w)
    \/ WriteOut(w)

----------------------------------------------------------------------------
(* The scan specification. *)

----------------------------------------------------------------------------
(* The kernels of the radix sort (specification 4.2, 4.4, 4.6). *)

Passes == 0 .. RADIX_GROUPS - 1

\* (key >> radix_offset) & (RADIX_DIGITS - 1)
DigitOf(key, radix_offset) == (key \div (2 ^ radix_offset)) % RADIX_DIGITS

\* Mutant of SegmentSizes: the uniform holds twice the tile sizes of the kernels.
SegmentSizesDoubled ==
    [histogram |-> 2 * BUCKET_HISTOGRAM_SEGMENT_SIZE, scatter |-> 2 * ScatterSegmentSize]

\* The segment_sizes uniform RadixSort::init_u32 / RadixSortBy::init creates.
SegmentSizes ==
    [histogram |-> BUCKET_HISTOGRAM_SEGMENT_SIZE, scatter |-> ScatterSegmentSize]

\* The dispatch generator, radix variant: one thread writes both records.
GenerateDispatches ==
    /\ queue # <<>> /\ Head0 = CmdGenerateDispatches
    /\ histogram_dispatch' = DivCeil(count, SegmentSizes.histogram)
    /\ scatter_dispatch' = DivCeil(count, SegmentSizes.scatter)
    /\ queue' = Tail(queue)
    /\ UNCHANGED <<typeVars, auxVars, shader, data, input, count, dispatch_indirect, group_state,
                   group_counter, dispatch, wg, encodes, temporary_storage,
                   values, temporary_values, global_bucket_data>>

\* encoder.clear_buffer(self.global_bucket_data.view())
ClearGlobalBucketData ==
    /\ queue # <<>> /\ Head0 = CmdClearGlobalBucketData
    /\ global_bucket_data' = [p \in Passes |-> [d \in Digits |-> 0]]
    /\ queue' = Tail(queue)
    /\ UNCHANGED <<typeVars, auxVars, shader, data, input, count, dispatch_indirect, group_state,
                   group_counter, dispatch, wg, encodes, temporary_storage,
                   values, temporary_values, histogram_dispatch, scatter_dispatch>>

\* Keys of histogram tile g, below the count, whose digit of pass p is d.
HistogramTileCount(g, p, d) ==
    Cardinality({k \in 0 .. BUCKET_HISTOGRAM_SEGMENT_SIZE - 1 :
        LET i == g * BUCKET_HISTOGRAM_SEGMENT_SIZE + k
        IN  /\ i < count /\ i \in DOMAIN data
            /\ DigitOf(data[i], RADIX_SIZE * p) = d})

\* Bucket histogram: a workgroup folds the histograms of its tile, one per
\* pass, into the global rows with atomic adds.
BucketHistogram(w) ==
    /\ Running(w) /\ wg[w].pc = "bucket_histogram"
    /\ global_bucket_data' =
         [p \in Passes |-> [d \in Digits |->
             Add32(global_bucket_data[p][d], HistogramTileCount(wg[w].id, p, d))]]
    /\ wg' = SetWg(w, [wg[w] EXCEPT !.pc = "done"])
    /\ UNCHANGED <<typeVars, auxVars, shader, data, input, count, dispatch_indirect, group_state,
                   group_counter, dispatch, queue, encodes, temporary_storage,
                   values, temporary_values, histogram_dispatch, scatter_dispatch>>

\* Global bucket offsets: workgroup p turns row p into its exclusive prefix sum.
GlobalBucketOffsets(w) ==
    /\ Running(w) /\ wg[w].pc = "global_bucket_offsets"
    /\ global_bucket_data' =
         [p \in Passes |->
             IF p = wg[w].id
             THEN [d \in Digits |-> SumTo(global_bucket_data[p], 0, d)]
             ELSE global_bucket_data[p]]
    /\ wg' = SetWg(w, [wg[w] EXCEPT !.pc = "done"])
    /\ UNCHANGED <<typeVars, auxVars, shader, data, input, count, dispatch_indirect, group_state,
                   group_counter, dispatch, queue, encodes, temporary_storage,
                   values, temporary_values, histogram_dispatch, scatter_dispatch>>

----------------------------------------------------------------------------
(* The bucket scatter kernel (specification 4.7), one action per step of a  *)
(* workgroup and, for steps 4 to 6, of the thread that owns a digit.        *)

ByVariant == shader = SHADER_TEMPLATE_U32

\* The caller's buffer a binding of the running dispatch names.
Buffer(name) ==
    CASE name = "data" -> data
      [] name = "temporary_storage" -> temporary_storage
      [] name = "values" -> values
      [] name = "temporary_values" -> temporary_values
      [] name = "output" -> output

Empty == [valid |-> FALSE, key |-> 0, value |-> 0, digit |-> 0]

\* Step 2: the tile of workgroup id g, bounded by the count, with the pass
\* digit of each element (and its companion value in the key-value variant).
ScatterTile(g) ==
    LET keys_in == Buffer(Head0.bind.keys_in)
        values_in == Buffer(Head0.bind.values_in)
    IN  [k \in 0 .. ScatterSegmentSize - 1 |->
            LET i == g * ScatterSegmentSize + k
            IN  IF i < count /\ i \in DOMAIN keys_in
                THEN [valid |-> TRUE,
                      key |-> keys_in[i],
                      value |-> IF ByVariant /\ i \in DOMAIN values_in
                                THEN values_in[i] ELSE 0,
                      digit |-> DigitOf(keys_in[i], Head0.uniforms.radix_offset)]
                ELSE Empty]

\* Step 3: c_g[d], the elements of the tile with digit d.
LocalCount(tile, d) ==
    Cardinality({k \in DOMAIN tile : tile[k].valid /\ tile[k].digit = d})

\* Step 3: the elements of the tile before slot k with the digit of slot k.
LocalRank(tile, k) ==
    Cardinality({k2 \in DOMAIN tile :
        k2 < k /\ tile[k2].valid /\ tile[k2].digit = tile[k].digit})

\* Steps 2 and 3.
LoadScatterTile(w) ==
    /\ Running(w) /\ wg[w].pc = "load"
    /\ wg' = SetWg(w, [wg[w] EXCEPT !.pc = "lanes", !.tile = ScatterTile(wg[w].id)])
    /\ UNCHANGED <<typeVars, auxVars, sortVars, shader, data, input, count, dispatch_indirect, group_state,
                   group_counter, dispatch, queue, encodes>>

InLane(w, d, pc) == Running(w) /\ wg[w].pc = "lanes" /\ wg[w].lane[d].pc = pc

SetLane(w, d, lane) == SetWg(w, [wg[w] EXCEPT !.lane[d] = lane])

\* Step 4: write (LocalOffset, c_g[d]).  The walk of step 5 starts at g - 1;
\* workgroup 0 has no predecessor to walk.
PublishLocalOffset(w, d) ==
    /\ InLane(w, d, "publish")
    /\ wg[w].id \in DOMAIN group_state
    /\ group_state' = [group_state EXCEPT ![wg[w].id][d] =
                          PackedData(LocalOffset, LocalCount(wg[w].tile, d))]
    /\ wg' = SetLane(w, d, [pc |-> IF wg[w].id = 0 THEN "publish_global" ELSE "lookback",
                            j |-> wg[w].id - 1, sum |-> 0])
    /\ UNCHANGED <<typeVars, auxVars, sortVars, shader, data, input, count, dispatch_indirect, group_counter,
                   dispatch, queue, encodes>>

\* Step 5: one read of the slot of digit d of predecessor j.
LookBackDigit(w, d) ==
    /\ InLane(w, d, "lookback")
    /\ wg[w].lane[d].j \in DOMAIN group_state
    /\ LET lane == wg[w].lane[d]
           slot == group_state[lane.j][d]
           sum == Add32(lane.sum, slot.value)
       IN  wg' = CASE slot.status = GlobalOffset ->
                        SetLane(w, d, [lane EXCEPT !.pc = "publish_global", !.sum = sum])
                   [] slot.status = LocalOffset ->
                        SetLane(w, d, [lane EXCEPT
                            !.pc = IF lane.j = 0 THEN "publish_global" ELSE "lookback",
                            !.j = lane.j - 1, !.sum = sum])
                   [] OTHER -> wg
    /\ UNCHANGED <<typeVars, auxVars, sortVars, shader, data, input, count, dispatch_indirect, group_state,
                   group_counter, dispatch, queue, encodes>>

\* Step 6: write (GlobalOffset, look_back_sum + c_g[d]).
PublishGlobalOffset(w, d) ==
    /\ InLane(w, d, "publish_global")
    /\ wg[w].id \in DOMAIN group_state
    /\ group_state' = [group_state EXCEPT ![wg[w].id][d] =
                          PackedData(GlobalOffset,
                              Add32(wg[w].lane[d].sum, LocalCount(wg[w].tile, d)))]
    /\ wg' = SetLane(w, d, [wg[w].lane[d] EXCEPT !.pc = "done"])
    /\ UNCHANGED <<typeVars, auxVars, sortVars, shader, data, input, count, dispatch_indirect, group_counter,
                   dispatch, queue, encodes>>

\* Step 7: the destination of slot k of the tile of workgroup w.
Destination(w, k) ==
    LET e == wg[w].tile[k]
    IN  Add32(Add32(global_bucket_data[Head0.uniforms.radix_group][e.digit],
                    wg[w].lane[e.digit].sum),
              LocalRank(wg[w].tile, k))

\* `buf` after the elements of the tile of w were written to their destinations
\* (a write past the end of the buffer is dropped).
Scattered(buf, w, field) ==
    [i \in DOMAIN buf |->
        LET ks == {k \in DOMAIN wg[w].tile : wg[w].tile[k].valid /\ Destination(w, k) = i}
        IN  IF ks = {} THEN buf[i]
            ELSE wg[w].tile[CHOOSE k \in ks : \A k2 \in ks : k2 <= k][field]]

\* Step 7, after the threads of all digits have their look-back sum.
Scatter(w) ==
    /\ Running(w) /\ wg[w].pc = "lanes"
    /\ \A d \in Digits : wg[w].lane[d].pc = "done"
    /\ LET keys_out == Head0.bind.keys_out
           values_out == Head0.bind.values_out
           new_keys == Scattered(Buffer(keys_out), w, "key")
           new_values == Scattered(Buffer(values_out), w, "value")
       IN  /\ data' = IF keys_out = "data" THEN new_keys ELSE data
           /\ temporary_storage' =
                IF keys_out = "temporary_storage" THEN new_keys ELSE temporary_storage
           /\ values' = IF ByVariant /\ values_out = "values" THEN new_values ELSE values
           /\ temporary_values' =
                IF ByVariant /\ values_out = "temporary_values" THEN new_values
                ELSE temporary_values
    /\ wg' = SetWg(w, [wg[w] EXCEPT !.pc = "done"])
    /\ UNCHANGED <<typeVars, auxVars, shader, input, count, dispatch_indirect, group_state, group_counter,
                   dispatch, queue, encodes, global_bucket_data, histogram_dispatch,
                   scatter_dispatch>>

SortStep(w) ==
    \/ BucketHistogram(w)
    \/ GlobalBucketOffsets(w)
    \/ AcquireId(w)
    \/ LoadScatterTile(w)
    \/ \E d \in Digits : PublishLocalOffset(w, d)
    \/ \E d \in Digits : LookBackDigit(w, d)
    \/ \E d \in Digits : PublishGlobalOffset(w, d)
    \/ Scatter(w)

----------------------------------------------------------------------------
(* GatherBy and ScatterBy: host encoders (gather_by/mod.rs, scatter_by/mod.rs)
   and kernels (specification 4.10). *)

\* The pipelines of GatherBy::init_u32 and ScatterBy::init_u32.
GATHER_BY_SHADER_TEMPLATE == "gather_by/shader_template.wgsl"
SCATTER_BY_SHADER_TEMPLATE == "scatter_by/shader_template.wgsl"

PermuteShaders == {GATHER_BY_SHADER_TEMPLATE, SCATTER_BY_SHADER_TEMPLATE}

\* generate_dispatch.encode(encoder, GenerateDispatchResources { group_size,
\* count, dispatch }): the generator with the uniform and the record it is bound to.
CmdGenerateDispatchOf(group_size, record) ==
    [op |-> "generate_dispatch", group_size |-> group_size, dispatch |-> record]

\* Mutant of CmdPermute: the division rounds down, dropping a partial group.
CmdPermuteFloor(kernel, bind, indirect, fallback_count) ==
    [op |-> IF indirect THEN "dispatch_workgroups_indirect" ELSE "dispatch_workgroups",
     kernel |-> kernel,
     bind |-> bind,
     count_x |-> fallback_count \div GROUP_SIZE]

\* The dispatch of GatherBy::encode / ScatterBy::encode: indirect on
\* self.dispatch, or else data.len().div_ceil(GROUP_SIZE) workgroups.
CmdPermute(kernel, bind, indirect, fallback_count) ==
    [op |-> IF indirect THEN "dispatch_workgroups_indirect" ELSE "dispatch_workgroups",
     kernel |-> kernel,
     bind |-> bind,
     count_x |-> DivCeil(fallback_count, GROUP_SIZE)]

\* The commands GatherBy::encode / ScatterBy::encode record.
PermuteCommands(kernel, bind, indirect, fallback_count) ==
    (IF indirect THEN <<CmdGenerateDispatchOf(GROUP_SIZE, "dispatch")>> ELSE <<>>)
    \o <<CmdPermute(kernel, bind, indirect, fallback_count)>>

\* The body GatherBy::encode and ScatterBy::encode share: the fallback count
\* is data.len(), the length of the view passed as `data`.
PermuteRecord(kernel, bind, c) ==
    /\ Idle
    /\ LET indirect == c # NoCount
           fallback_count == BufLen(Buffer(bind.data_in))
       IN  /\ dispatch_indirect' = indirect
           /\ count' = CountUniform(c, fallback_count)
           /\ queue' = PermuteCommands(kernel, bind, indirect, fallback_count)
    /\ encodes' = encodes + 1
    /\ UNCHANGED <<typeVars, sortVars, run_starts, run_count, find_runs_dispatch, by, output,
                   data, input, group_state, group_counter, wg>>

\* GatherBy::encode(encoder, GatherByInput { gather_by, data, count }, output),
\* with the views bound as `bind` names them.
GatherByEncode(bind, c) ==
    /\ shader = GATHER_BY_SHADER_TEMPLATE
    /\ PermuteRecord("gather_by", bind, c)
    /\ UNCHANGED <<typeVars, shader, dispatch>>

\* ScatterBy::encode(encoder, ScatterByInput { scatter_by, data, count }, output),
\* with the views bound as `bind` names them.
ScatterByEncode(bind, c) ==
    /\ shader = SCATTER_BY_SHADER_TEMPLATE
    /\ PermuteRecord("scatter_by", bind, c)
    /\ UNCHANGED <<typeVars, shader, dispatch>>

\* The dispatch generator (specification 4.2) bound to a group size and a
\* record: one thread writes ceil(n / s).
GenerateDispatchOf ==
    /\ queue # <<>> /\ Head0.op = "generate_dispatch" /\ Head0 # CmdGenerateDispatch
    /\ LET x == DivCeil(count, Head0.group_size)
       IN  /\ dispatch' = IF Head0.dispatch = "dispatch" THEN x ELSE dispatch
           /\ find_runs_dispatch' =
                  IF Head0.dispatch = "find_runs_dispatch" THEN x ELSE find_runs_dispatch
    /\ queue' = Tail(queue)
    /\ UNCHANGED <<typeVars, sortVars, run_starts, run_count, by, output, shader, data, input,
                   count, dispatch_indirect, group_state, group_counter, wg, encodes>>

\* The indices the threads of the workgroup with hardware index g own, below
\* the count.
\* The gather kernel: thread i writes data_out[i] = data_in[gather_by[i]].
GatheredBy(g) ==
    LET data_in == Buffer(Head0.bind.data_in)
        data_out == Buffer(Head0.bind.data_out)
    IN  [i \in DOMAIN data_out |->
            IF i \in Threads(g) THEN data_in[by[i]] ELSE data_out[i]]

\* The scatter kernel: thread i writes data_out[scatter_by[i]] = data_in[i].
ScatteredBy(i) ==
    LET data_in == Buffer(Head0.bind.data_in)
        data_out == Buffer(Head0.bind.data_out)
    IN  [j \in DOMAIN data_out |-> IF j = by[i] THEN data_in[i] ELSE data_out[j]]

\* The workgroup after its thread i has written.
AfterThread(rec, i) ==
    [rec EXCEPT !.pending = rec.pending \ {i},
                !.pc = IF rec.pending = {i} THEN "done" ELSE rec.pc]

\* One workgroup of the gather kernel runs its threads, which write to slots
\* of their own, or one thread of the scatter kernel writes: no order is
\* imposed on the writes of the scatter, within a workgroup or across them.
PermuteStep(w) ==
    /\ Running(w) /\ wg[w].pc \in {"gather_by", "scatter_by"}
    /\ \E i \in IF wg[w].pc = "gather_by" THEN {0} ELSE wg[w].pending :
        LET written == IF wg[w].pc = "gather_by" THEN GatheredBy(wg[w].id)
                       ELSE ScatteredBy(i)
        IN  /\ output' = IF Head0.bind.data_out = "output" THEN written ELSE output
            /\ temporary_storage' =
                   IF Head0.bind.data_out = "temporary_storage" THEN written
                   ELSE temporary_storage
            /\ wg' = SetWg(w, IF wg[w].pc = "gather_by"
                              THEN [wg[w] EXCEPT !.pc = "done"]
                              ELSE AfterThread(wg[w], i))
    /\ UNCHANGED <<typeVars, run_starts, run_count, find_runs_dispatch, by, shader, data, input,
                   count, dispatch_indirect, group_state, group_counter, dispatch,
                   queue, encodes, values, temporary_values, global_bucket_data,
                   histogram_dispatch, scatter_dispatch>>

----------------------------------------------------------------------------
(* FindRuns: host encoder (find_runs/mod.rs) and kernels (specification 4.9).
   The instance embeds an inclusive PrefixSum whose data is the run_mapping
   view, so `data` holds run_mapping and `input` the FindRunsInput.data. *)

run_mapping == data

CmdClearRunMapping == [op |-> "clear_buffer_slice(run_mapping)"]

\* Mutant of CmdRunsDispatch: the division rounds down, dropping a partial group.
CmdRunsDispatchFloor(kernel, indirect, fallback_count) ==
    [op |-> IF indirect THEN "dispatch_workgroups_indirect" ELSE "dispatch_workgroups",
     kernel |-> kernel,
     count_x |-> fallback_count \div GROUPS_SIZE]

\* MarkRunStarts::encode / CollectRunStarts::encode: indirect on
\* FindRuns.dispatch, or else fallback_count.div_ceil(GROUPS_SIZE) workgroups.
CmdRunsDispatch(kernel, indirect, fallback_count) ==
    [op |-> IF indirect THEN "dispatch_workgroups_indirect" ELSE "dispatch_workgroups",
     kernel |-> kernel,
     count_x |-> DivCeil(fallback_count, GROUPS_SIZE)]

\* ResolveRunCount::encode: one workgroup.
CmdResolveRunCount ==
    [op |-> "dispatch_workgroups", kernel |-> "resolve_run_count", count_x |-> 1]

\* Mutant of FindRunsCommands: run_mapping is not cleared before the mark.
FindRunsCommandsNoClear(indirect, fallback_count, mapping_len) ==
    (IF indirect THEN <<CmdGenerateDispatchOf(GROUPS_SIZE, "find_runs_dispatch")>>
     ELSE <<>>)
    \o <<CmdRunsDispatch("mark_run_starts", indirect, fallback_count)>>
    \o PrefixSumCommands(indirect, Workgroups(mapping_len))
    \o <<CmdRunsDispatch("collect_run_starts", indirect, fallback_count),
         CmdResolveRunCount>>

\* Mutant of FindRunsCommands: the run starts are collected before the scan.
FindRunsCommandsCollectFirst(indirect, fallback_count, mapping_len) ==
    (IF indirect THEN <<CmdGenerateDispatchOf(GROUPS_SIZE, "find_runs_dispatch")>>
     ELSE <<>>)
    \o <<CmdClearRunMapping,
         CmdRunsDispatch("mark_run_starts", indirect, fallback_count),
         CmdRunsDispatch("collect_run_starts", indirect, fallback_count)>>
    \o PrefixSumCommands(indirect, Workgroups(mapping_len))
    \o <<CmdResolveRunCount>>

\* The commands FindRuns::encode records: generator (with a count), clear of
\* run_mapping, mark, the commands of PrefixSum::encode on run_mapping,
\* collect, resolve.
FindRunsCommands(indirect, fallback_count, mapping_len) ==
    (IF indirect THEN <<CmdGenerateDispatchOf(GROUPS_SIZE, "find_runs_dispatch")>>
     ELSE <<>>)
    \o <<CmdClearRunMapping,
         CmdRunsDispatch("mark_run_starts", indirect, fallback_count)>>
    \o PrefixSumCommands(indirect, Workgroups(mapping_len))
    \o <<CmdRunsDispatch("collect_run_starts", indirect, fallback_count),
         CmdResolveRunCount>>

\* FindRuns::encode(encoder, FindRunsInput { data, count },
\* FindRunsOutput { run_count, run_starts, run_mapping })
FindRunsEncode(buf, c, mapping, starts) ==
    /\ shader = MARK_RUN_STARTS_SHADER_U32
    /\ Idle
    /\ LET indirect == c # NoCount
           fallback_count == BufLen(buf)
       IN  /\ dispatch_indirect' = indirect
           /\ count' = CountUniform(c, fallback_count)
           /\ group_state' = GrowGroupState(group_state, Workgroups(BufLen(mapping)))
           /\ queue' = FindRunsCommands(indirect, fallback_count, BufLen(mapping))
    /\ input' = buf
    /\ data' = mapping
    /\ run_starts' = starts
    /\ encodes' = encodes + 1
    /\ UNCHANGED <<typeVars, sortVars, run_count, find_runs_dispatch, by, output, shader,
                   group_counter, dispatch, wg>>

\* encoder.clear_buffer_slice(run_mapping)
ClearRunMapping ==
    /\ queue # <<>> /\ Head0 = CmdClearRunMapping
    /\ data' = [i \in DOMAIN data |-> 0]
    /\ queue' = Tail(queue)
    /\ UNCHANGED <<typeVars, auxVars, sortVars, shader, input, count, dispatch_indirect,
                   group_state, group_counter, dispatch, wg, encodes>>

\* Stage 1: run_mapping[i] = 1 if i = 0 or data[i] # data[i - 1], else 0.
MarkRunStarts(w) ==
    /\ Running(w) /\ wg[w].pc = "mark_run_starts"
    /\ data' = [i \in DOMAIN data |->
                  IF i \in RunThreads(wg[w].id)
                  THEN (IF i = 0 \/ input[i] # input[i - 1] THEN 1 ELSE 0)
                  ELSE data[i]]
    /\ wg' = SetWg(w, [wg[w] EXCEPT !.pc = "done"])
    /\ UNCHANGED <<typeVars, auxVars, sortVars, shader, input, count, dispatch_indirect,
                   group_state, group_counter, dispatch, queue, encodes>>

\* Mutant of RunStartThreads: every thread below the count writes.
RunStartThreadsAll(g) == RunThreads(g)

\* The threads of workgroup g at the first element of a run.
RunStartThreads(g) ==
    {i \in RunThreads(g) : i = 0 \/ run_mapping[i - 1] # run_mapping[i]}

\* Stage 3: a thread at the first element of its run writes its index to
\* run_starts[run_mapping[i] - 1]; the other threads write nothing.  No order
\* is imposed on the threads, within a workgroup or across them.
CollectRunStarts(w) ==
    /\ Running(w) /\ wg[w].pc = "collect_run_starts"
    /\ \E i \in wg[w].pending :
          /\ run_starts' =
                IF i \in RunStartThreads(wg[w].id)
                   /\ run_mapping[i] - 1 \in DOMAIN run_starts
                THEN [run_starts EXCEPT ![run_mapping[i] - 1] = i]
                ELSE run_starts
          /\ wg' = SetWg(w, AfterThread(wg[w], i))
    /\ UNCHANGED <<typeVars, sortVars, run_count, find_runs_dispatch, by, output, shader, data,
                   input, count, dispatch_indirect, group_state, group_counter,
                   dispatch, queue, encodes>>

\* Stage 4: one thread writes run_count = run_mapping[n - 1].
ResolveRunCount(w) ==
    /\ Running(w) /\ wg[w].pc = "resolve_run_count"
    /\ count - 1 \in DOMAIN run_mapping
    /\ run_count' = run_mapping[count - 1]
    /\ wg' = SetWg(w, [wg[w] EXCEPT !.pc = "done"])
    /\ UNCHANGED <<typeVars, sortVars, run_starts, find_runs_dispatch, by, output, shader, data,
                   input, count, dispatch_indirect, group_state, group_counter,
                   dispatch, queue, encodes>>

RunsStep(w) ==
    \/ MarkRunStarts(w)
    \/ CollectRunStarts(w)
    \/ ResolveRunCount(w)

----------------------------------------------------------------------------
(* Radix canonicalization (specification 4.5), on keys of KEY_BITS bits. *)

\* Width of a key: RADIX_GROUPS digits of RADIX_SIZE bits (32 in the source).
KEY_BITS == RADIX_GROUPS * RADIX_SIZE

Patterns == 0 .. 2 ^ KEY_BITS - 1

\* 0x80000000 and 0xFFFFFFFF at the width of the model.
SIGN_BIT == 2 ^ (KEY_BITS - 1)
ALL_BITS == 2 ^ KEY_BITS - 1

SignSet(x) == x >= SIGN_BIT

\* x XOR 0x80000000
FlipSign(x) == IF SignSet(x) THEN x - SIGN_BIT ELSE x + SIGN_BIT

\* x XOR 0xFFFFFFFF
FlipAll(x) == ALL_BITS - x

\* Mutant of Canonicalize: a float key has only its sign bit flipped.
CanonicalizeSignOnly(type, x) == IF type = "u32" THEN x ELSE FlipSign(x)

\* The transform applied before the digits are extracted.
Canonicalize(type, x) ==
    CASE type = "u32" -> x
      [] type = "i32" -> FlipSign(x)
      [] type = "f32" -> IF SignSet(x) THEN FlipAll(x) ELSE FlipSign(x)

\* The inverse, applied on the write-out of the last pass.
Decanonicalize(type, y) ==
    CASE type = "u32" -> y
      [] type = "i32" -> FlipSign(y)
      [] type = "f32" -> IF SignSet(y) THEN FlipSign(y) ELSE FlipAll(y)

\* The kernels extract digits from the canonical pattern.
CanonicalizeKeys ==
    /\ key_bits # <<>> /\ canonical = <<>>
    /\ canonical' = [i \in DOMAIN key_bits |-> Canonicalize(key_type, key_bits[i])]
    /\ UNCHANGED <<shader, data, input, count, dispatch_indirect, group_state,
                   group_counter, dispatch, queue, wg, encodes, sortVars, auxVars,
                   value_size, code, panic, key_type, key_bits, restored>>

\* The last pass writes the keys out in their own representation.
RestoreKeys ==
    /\ canonical # <<>> /\ restored = <<>>
    /\ restored' = [i \in DOMAIN canonical |-> Decanonicalize(key_type, canonical[i])]
    /\ UNCHANGED <<shader, data, input, count, dispatch_indirect, group_state,
                   group_counter, dispatch, queue, wg, encodes, sortVars, auxVars,
                   value_size, code, panic, key_type, key_bits, canonical>>

----------------------------------------------------------------------------
(* Host side: the value type of GatherBy, ScatterBy and BucketScatterBy. *)

\* The pipelines whose shader source is a template over VALUE_TYPE.
ValueShaders == PermuteShaders \cup {SHADER_TEMPLATE_U32}

\* panic!("Expected an `abi::Sized` type's size to be a multiple of 4")
EXPECTED_MULTIPLE_OF_4 == "Expected an `abi::Sized` type's size to be a multiple of 4"

\* write!(s, "    field_{}: u32,\n", i)
FieldLine(i) == [line |-> "field: u32,", field |-> i]

\* Mutant of WriteValueType: the size is not checked.
WriteValueTypeUnchecked(size, s) ==
    [panic |-> "",
     s |-> s \o <<[line |-> "struct VALUE_TYPE {"]>>
             \o [i \in 1 .. size \div 4 |-> FieldLine(i - 1)]
             \o <<[line |-> "}"]>>]

\* write_value_type::<V>(&mut s): the string it leaves, or the panic.
WriteValueType(size, s) ==
    IF size % 4 # 0
    THEN [panic |-> EXPECTED_MULTIPLE_OF_4, s |-> s]
    ELSE [panic |-> "",
          s |-> s \o <<[line |-> "struct VALUE_TYPE {"]>>
                  \o [i \in 1 .. size \div 4 |-> FieldLine(i - 1)]
                  \o <<[line |-> "}"]>>]

\* let mut code = String::new(); write_value_type::<V>(&mut code);
\* write!(code, "{}", shader_template)
ShaderCode(shader_template, size) ==
    IF shader_template \in ValueShaders
    THEN LET written == WriteValueType(size, <<>>)
         IN  IF written.panic # "" THEN written
             ELSE [panic |-> "", s |-> written.s \o <<[line |-> shader_template]>>]
    ELSE [panic |-> "", s |-> <<[line |-> shader_template]>>]

\* init_internal of an instance whose value type has value_size bytes: the
\* shader source is put together, or the program panics.
InitInternal ==
    /\ code = <<>> /\ panic = ""
    /\ LET made == ShaderCode(shader, value_size)
       IN  /\ panic' = made.panic
           /\ code' = made.s
    /\ UNCHANGED <<shader, data, input, count, dispatch_indirect, group_state,
                   group_counter, dispatch, queue, wg, encodes, sortVars, auxVars,
                   value_size, keyVars>>

----------------------------------------------------------------------------
(* Specifications. *)

Counts(len) == {NoCount} \cup (0 .. len)

\* init_internal of PrefixSum, PrefixSumExclusive, RadixSort and RadixSortBy:
\* one zeroed status record, a zero counter, (1, 1, 1) in every indirect
\* record and a zeroed histogram matrix; no caller buffer seen yet.
InitResources ==
    /\ data = <<>>
    /\ input = <<>>
    /\ count = 0
    /\ dispatch_indirect = FALSE
    /\ group_state = CreateSliceBufferZeroed(1)
    /\ group_counter = 0
    /\ dispatch = 1
    /\ queue = <<>>
    /\ wg = <<>>
    /\ encodes = 0
    /\ temporary_storage = <<>>
    /\ values = <<>>
    /\ temporary_values = <<>>
    /\ global_bucket_data = [p \in 0 .. RADIX_GROUPS - 1 |-> [d \in Digits |-> 0]]
    /\ histogram_dispatch = 1
    /\ scatter_dispatch = 1
    /\ run_starts = <<>>
    /\ run_count = 0
    /\ find_runs_dispatch = 1
    /\ by = <<>>
    /\ output = <<>>

\* No key has been followed through the transform.
InitKeys == key_bits = <<>> /\ canonical = <<>> /\ restored = <<>>

\* An instance as init leaves it, its keys and values being u32 (four bytes).
InitInstance ==
    /\ InitResources
    /\ value_size = 4
    /\ code = ShaderCode(shader, 4).s
    /\ panic = ""
    /\ key_type = "u32"
    /\ InitKeys

InitScan ==
    /\ shader \in ScanShaders
    /\ InitInstance

EncodeScan ==
    \E len \in 1 .. MaxLen : \E buf \in Arrays(len, MaxVal) :
        \/ \E c \in Counts(len) : PrefixSumEncode(buf, c)
        \/ PrefixSumExclusiveEncode(buf)

NextScan ==
    \/ EncodeScan
    \/ GenerateDispatch
    \/ ClearGroupCounter
    \/ ClearGroupState
    \/ Launch
    \/ Retire
    \/ \E w \in DOMAIN wg : ScanStep(w)

SpecScan == InitScan /\ [][NextScan]_vars

\* Keys the sort inputs are drawn from: every digit position takes both values.
Keys == {2, 5, 9}

\* The caller's temporary buffer of the same length, with arbitrary content.
Temporary(len) == [i \in 0 .. len - 1 |-> 0]

\* Values that name the input position they come from.
Positions(len) == [i \in 0 .. len - 1 |-> i]

InitSort ==
    /\ shader \in SortShaders
    /\ InitInstance

EncodeSort ==
    /\ encodes < MaxSortEncodes
    /\ \E len \in 1 .. MaxSortLen : \E keys \in [0 .. len - 1 -> Keys] :
       \E c \in Counts(len) :
          \/ RadixSortEncode(keys, Temporary(len), c, RADIX_GROUPS)
          \/ RadixSortByEncode(keys, Positions(len), Temporary(len), Temporary(len),
                               c, RADIX_GROUPS)

NextSort ==
    \/ EncodeSort
    \/ GenerateDispatches
    \/ ClearGlobalBucketData
    \/ ClearGroupCounter
    \/ ClearGroupState
    \/ Launch
    \/ Retire
    \/ \E w \in DOMAIN wg : SortStep(w)

SpecSort == InitSort /\ [][NextSort]_vars

\* Repeated sorts on one instance: up to MaxEncodes encodes, of keys that
\* differ in two digits, without a count or with a count one short of the
\* buffer.
EncodeSortAgain ==
    /\ encodes < MaxEncodes
    /\ \E len \in 1 .. MaxSortLen : \E keys \in [0 .. len - 1 -> {5, 9}] :
       \E c \in {NoCount, len - 1} :
          \/ RadixSortEncode(keys, Temporary(len), c, RADIX_GROUPS)
          \/ RadixSortByEncode(keys, Positions(len), Temporary(len), Temporary(len),
                               c, RADIX_GROUPS)

NextSortAgain ==
    \/ EncodeSortAgain
    \/ GenerateDispatches
    \/ ClearGlobalBucketData
    \/ ClearGroupCounter
    \/ ClearGroupState
    \/ Launch
    \/ Retire
    \/ \E w \in DOMAIN wg : SortStep(w)

SpecSortAgain == InitSort /\ [][NextSortAgain]_vars

\* Keys whose digits above the second are zero.
HalfKeys == {k \in {1, 2, 3} : k < RADIX_DIGITS * RADIX_DIGITS}

\* Full sorts and half-precision sorts of the same inputs, keys drawn from
\* HalfKeys.
EncodeFullPrecision ==
    /\ encodes < MaxSortEncodes
    /\ \E len \in 1 .. MaxSortLen : \E keys \in [0 .. len - 1 -> HalfKeys] :
       \E c \in Counts(len) :
          \/ RadixSortEncode(keys, Temporary(len), c, RADIX_GROUPS)
          \/ RadixSortByEncode(keys, Positions(len), Temporary(len), Temporary(len),
                               c, RADIX_GROUPS)

EncodeHalfPrecision ==
    /\ encodes < MaxSortEncodes
    /\ \E len \in 1 .. MaxSortLen : \E keys \in [0 .. len - 1 -> HalfKeys] :
       \E c \in Counts(len) :
          \/ RadixSortEncodeHalfPrecision(keys, Temporary(len), c)
          \/ RadixSortByEncodeHalfPrecision(keys, Positions(len), Temporary(len),
                                            Temporary(len), c)

NextHalf ==
    \/ EncodeFullPrecision
    \/ EncodeHalfPrecision
    \/ GenerateDispatches
    \/ ClearGlobalBucketData
    \/ ClearGroupCounter
    \/ ClearGroupState
    \/ Launch
    \/ Retire
    \/ \E w \in DOMAIN wg : SortStep(w)

SpecHalf == InitSort /\ [][NextHalf]_vars

\* Sorts whose temporary and value buffers are as long as the keys or one
\* element longer (no kernel access falls outside a buffer).
Lengths(len) == {len, len + 1}

EncodeAnyLengths ==
    /\ encodes < MaxSortEncodes
    /\ \E len \in 1 .. MaxSortLen : \E keys \in [0 .. len - 1 -> {5, 9}] :
       \E c \in {NoCount, len} :
          \/ \E t \in Lengths(len) :
                RadixSortEncode(keys, Temporary(t), c, RADIX_GROUPS)
          \/ \E v, t, u \in Lengths(len) :
                RadixSortByEncode(keys, Positions(v), Temporary(t), Temporary(u),
                                  c, RADIX_GROUPS)

NextLengths ==
    \/ EncodeAnyLengths
    \/ GenerateDispatches
    \/ ClearGlobalBucketData
    \/ ClearGroupCounter
    \/ ClearGroupState
    \/ Launch
    \/ Retire
    \/ \E w \in DOMAIN wg : SortStep(w)

SpecLengths == InitSort /\ [][NextLengths]_vars

\* Values of the elements a gather or scatter moves, and the content of an
\* output buffer nothing was written to.
PermuteValues == {1, 2}
Blank(len) == [i \in 0 .. len - 1 |-> 0]

IndexPermutations(len) ==
    {f \in [0 .. len - 1 -> 0 .. len - 1] : \A a, b \in 0 .. len - 1 : f[a] = f[b] => a = b}

\* The caller creates the buffers of a gather or scatter, with a temporary
\* buffer when the result is to be scattered back.
CreateBuffers(idx, src, dst, tmp) ==
    /\ Idle /\ encodes = 0 /\ data = <<>>
    /\ by' = idx
    /\ data' = src
    /\ input' = src
    /\ output' = dst
    /\ temporary_storage' = tmp
    /\ UNCHANGED <<typeVars, run_starts, run_count, find_runs_dispatch, shader, count,
                   dispatch_indirect, group_state, group_counter, dispatch, queue, wg,
                   encodes, values, temporary_values, global_bucket_data,
                   histogram_dispatch, scatter_dispatch>>

\* Buffers of a gather: any indices into a source no longer than the index
\* buffer (no thread below the count reads past the index buffer), and an
\* output as long as the index buffer.
CreateGatherBuffers ==
    /\ shader = GATHER_BY_SHADER_TEMPLATE
    /\ \E len \in 1 .. MaxPermuteLen : \E m \in 1 .. len :
       \E src \in [0 .. m - 1 -> PermuteValues] : \E idx \in [0 .. len - 1 -> 0 .. m - 1] :
          CreateBuffers(idx, src, Blank(len), <<>>)

\* Buffers of a scatter: a permutation, a source of its length and an output
\* of that length or longer.
CreateScatterBuffers ==
    /\ shader = SCATTER_BY_SHADER_TEMPLATE
    /\ \E len \in 1 .. MaxPermuteLen : \E src \in [0 .. len - 1 -> PermuteValues] :
       \E idx \in IndexPermutations(len) : \E d \in {len, len + 1} :
          CreateBuffers(idx, src, Blank(d), <<>>)

\* Buffers of a gather whose result is scattered back by the same permutation.
CreateRoundTripBuffers ==
    /\ shader = GATHER_BY_SHADER_TEMPLATE
    /\ \E len \in 1 .. MaxPermuteLen : \E src \in [0 .. len - 1 -> PermuteValues] :
       \E idx \in IndexPermutations(len) :
          CreateBuffers(idx, src, Blank(len), Blank(len))

RoundTrip == temporary_storage # <<>>

EncodeGather ==
    /\ data # <<>> /\ encodes = 0 /\ ~RoundTrip
    /\ \E c \in Counts(BufLen(by)) :
          GatherByEncode([data_in |-> "data", data_out |-> "output"], c)

EncodeScatter ==
    /\ data # <<>> /\ encodes = 0
    /\ \E c \in Counts(BufLen(by)) :
          ScatterByEncode([data_in |-> "data", data_out |-> "output"], c)

\* The gather of a round trip writes the temporary buffer.
EncodeGatherTemporary ==
    /\ data # <<>> /\ encodes = 0 /\ RoundTrip
    /\ \E c \in {NoCount, BufLen(by)} :
          GatherByEncode([data_in |-> "data", data_out |-> "temporary_storage"], c)

\* The caller's ScatterBy instance (a second instance, with the indirect
\* record of its initialisation) scatters the gathered buffer by the same
\* indices.
EncodeScatterBack ==
    /\ shader = GATHER_BY_SHADER_TEMPLATE /\ encodes = 1 /\ RoundTrip
    /\ shader' = SCATTER_BY_SHADER_TEMPLATE
    /\ dispatch' = 1
    /\ \E c \in {NoCount, BufLen(by)} :
          PermuteRecord("scatter_by",
                        [data_in |-> "temporary_storage", data_out |-> "output"], c)

NextPermute ==
    \/ CreateGatherBuffers
    \/ CreateScatterBuffers
    \/ CreateRoundTripBuffers
    \/ EncodeGather
    \/ EncodeScatter
    \/ EncodeGatherTemporary
    \/ EncodeScatterBack
    \/ GenerateDispatchOf
    \/ Launch
    \/ Retire
    \/ \E w \in DOMAIN wg : PermuteStep(w)

InitPermute ==
    /\ shader \in PermuteShaders
    /\ InitInstance

SpecPermute == InitPermute /\ [][NextPermute]_vars

\* Find-runs of data over two values, with a count of at least one element
\* (the resolve kernel reads run_mapping[n - 1]); the caller's run_mapping and
\* run_starts are as long as the data and hold arbitrary content.
Stale(len) == [i \in 0 .. len - 1 |-> 3]

EncodeRuns ==
    /\ encodes < MaxEncodes
    /\ \E len \in 1 .. MaxRunsLen : \E buf \in [0 .. len - 1 -> {0, 1}] :
       \E c \in {NoCount} \cup (1 .. len) :
          FindRunsEncode(buf, c, Stale(len), Stale(len))

NextRuns ==
    \/ EncodeRuns
    \/ GenerateDispatchOf
    \/ GenerateDispatch
    \/ ClearRunMapping
    \/ ClearGroupCounter
    \/ ClearGroupState
    \/ Launch
    \/ Retire
    \/ \E w \in DOMAIN wg : ScanStep(w) \/ RunsStep(w)

InitRuns ==
    /\ shader = MARK_RUN_STARTS_SHADER_U32
    /\ InitInstance

SpecRuns == InitRuns /\ [][NextRuns]_vars

\* Sizes of the value types instances are made for.
ValueSizes == 0 .. MaxValueSize

\* A type parameter V has been chosen; init has not run.
InitValueType ==
    /\ shader \in ValueShaders
    /\ InitResources
    /\ value_size \in ValueSizes
    /\ code = <<>>
    /\ panic = ""
    /\ key_type = "u32"
    /\ InitKeys

\* Encodes are methods of the instance init returns.
NextValueType ==
    \/ InitInternal
    \/ code # <<>> /\ NextPermute
    \/ code # <<>> /\ NextSort

SpecValueType == InitValueType /\ [][NextValueType]_vars

\* The caller hands the scatter an index buffer that is not a permutation:
\* every index is inside the output, some destination is named twice.
CreateDuplicateBuffers ==
    /\ shader = SCATTER_BY_SHADER_TEMPLATE
    /\ \E len \in 2 .. MaxPermuteLen : \E src \in [0 .. len - 1 -> PermuteValues] :
       \E idx \in [0 .. len - 1 -> 0 .. len - 1] \ IndexPermutations(len) :
          CreateBuffers(idx, src, Blank(len), <<>>)

NextRace ==
    \/ CreateDuplicateBuffers
    \/ EncodeScatter
    \/ GenerateDispatchOf
    \/ Launch
    \/ Retire
    \/ \E w \in DOMAIN wg : PermuteStep(w)

InitRace ==
    /\ shader = SCATTER_BY_SHADER_TEMPLATE
    /\ InitInstance

SpecRace == InitRace /\ [][NextRace]_vars

\* Two keys of one of the three key types.
InitCanon ==
    /\ shader = BUCKET_SCATTER_SHADER_U32
    /\ InitResources
    /\ value_size = 4
    /\ code = ShaderCode(shader, 4).s
    /\ panic = ""
    /\ key_type \in {"u32", "i32", "f32"}
    /\ key_bits \in Patterns \X Patterns
    /\ canonical = <<>>
    /\ restored = <<>>

NextCanon == CanonicalizeKeys \/ RestoreKeys

SpecCanon == InitCanon /\ [][NextCanon]_vars

\* One encode on an instance of any primitive.
EncodeAll ==
    /\ encodes = 0
    /\ \/ EncodeScan
       \/ EncodeSort
       \/ EncodeRuns
       \/ EncodeGather
       \/ EncodeScatter

NextAll ==
    \/ EncodeAll
    \/ CreateGatherBuffers
    \/ CreateScatterBuffers
    \/ GenerateDispatch
    \/ GenerateDispatchOf
    \/ GenerateDispatches
    \/ ClearGlobalBucketData
    \/ ClearRunMapping
    \/ ClearGroupCounter
    \/ ClearGroupState
    \/ Launch
    \/ Retire
    \/ \E w \in DOMAIN wg : ScanStep(w) \/ SortStep(w) \/ RunsStep(w) \/ PermuteStep(w)

InitAll ==
    /\ shader \in ScanShaders \cup SortShaders \cup PermuteShaders
                \cup {MARK_RUN_STARTS_SHADER_U32}
    /\ InitInstance

SpecAll == InitAll /\ [][NextAll]_vars

\* Both families of instances: the look-back protocol runs in the scan kernels
\* and in the scatter kernels.
Init ==
    /\ shader \in ScanShaders \cup SortShaders
    /\ InitInstance

Next ==
    \/ NextScan
    \/ NextSort

Spec == Init /\ [][Next]_vars

\* One array per length and count for the scan, keys that differ in every
\* digit for the sort.
EncodeLive ==
    \/ \E len \in 1 .. MaxLen : \E c \in Counts(len) :
          \/ PrefixSumEncode([i \in 0 .. len - 1 |-> 1], c)
          \/ PrefixSumExclusiveEncode([i \in 0 .. len - 1 |-> 1])
    \/ /\ encodes < MaxSortEncodes
       /\ \E len \in 1 .. MaxSortLen : \E keys \in [0 .. len - 1 -> {5, 9}] :
          \E c \in {NoCount, len} :
          \/ RadixSortEncode(keys, Temporary(len), c, RADIX_GROUPS)
          \/ RadixSortByEncode(keys, Positions(len), Temporary(len), Temporary(len),
                               c, RADIX_GROUPS)

\* The steps of the device: commands and the workgroups of the running kernel.
DeviceStep ==
    \/ GenerateDispatch
    \/ GenerateDispatches
    \/ ClearGlobalBucketData
    \/ ClearGroupCounter
    \/ ClearGroupState
    \/ Launch
    \/ Retire

WorkgroupStep(w) == ScanStep(w) \/ SortStep(w)

NextLive ==
    \/ EncodeLive
    \/ DeviceStep
    \/ \E w \in DOMAIN wg : WorkgroupStep(w)

\* Workgroups of the largest dispatch.
MaxWorkgroups ==
    LET a == DivCeil(MaxLen, SEGMENT_SIZE)
    IN  IF a > RADIX_GROUPS THEN a ELSE RADIX_GROUPS

\* The device executes the recorded commands, and every workgroup of the
\* running dispatch is scheduled again and again.  A look-back read that finds
\* EMPTY / NotReady changes nothing, so it does not count as a step.
FairSpec ==
    /\ Init
    /\ [][NextLive]_vars
    /\ WF_vars(DeviceStep)
    /\ \A w \in 1 .. MaxWorkgroups : WF_vars(WorkgroupStep(w))

----------------------------------------------------------------------------
(* Reference values of the scan, computed from the recorded input. *)

Min(a, b) == IF a < b THEN a ELSE b

\* n: the number of elements the caller asked to be processed, the count passed
\* or else the length of the data buffer.
ElementCount == IF dispatch_indirect THEN count ELSE BufLen(input)

\* a_g: the aggregate of tile g over the elements below the count.
RefAggregate(g) ==
    SumTo(input, Min(ElementCount, g * SEGMENT_SIZE), Min(ElementCount, (g + 1) * SEGMENT_SIZE))

\* a_0 + ... + a_(g-1)
RefExclusivePrefix(g) == SumTo(input, 0, Min(ElementCount, g * SEGMENT_SIZE))

\* a_0 + ... + a_g
RefInclusivePrefix(g) == SumTo(input, 0, Min(ElementCount, (g + 1) * SEGMENT_SIZE))

\* An encode has been recorded and its command stream has run to completion.
ScanFinished == shader \in ScanShaders /\ encodes > 0 /\ Idle

AllOnes == \A i \in DOMAIN input : input[i] = 1

\* A direct dispatch over an array that spans more than two tiles.
ThreeTiles == BufLen(data) > 2 * SEGMENT_SIZE /\ count = BufLen(data)

----------------------------------------------------------------------------
(* Claims about the scan. *)

\* C1: inclusive scan.  When the dispatch has finished, data[i] is
\* A[0] + ... + A[i] for every i below the element count, whatever the
\* interleaving of the workgroups was.
C1_InclusiveScan ==
    (Inclusive /\ ScanFinished) =>
        \A i \in DOMAIN data : i < ElementCount => data[i] = SumTo(input, 0, i + 1)

\* Witness of C1: an all-ones input over three tiles ends as data[i] = i + 1.
C1_Witness ==
    /\ Inclusive /\ ScanFinished /\ ThreeTiles /\ AllOnes
    /\ \A i \in DOMAIN data : data[i] = i + 1

\* C2: exclusive scan.  When the dispatch has finished, data[i] is
\* A[0] + ... + A[i-1] for every i below the element count, with data[0] = 0:
\* the inclusive result shifted by one element, across tile boundaries too.
C2_ExclusiveScan ==
    (~Inclusive /\ ScanFinished) =>
        \A i \in DOMAIN data : i < ElementCount =>
            /\ data[i] = SumTo(input, 0, i)
            /\ i = 0 => data[i] = 0
            /\ i > 0 => data[i] = SumTo(input, 0, (i - 1) + 1)

\* Witness of C2: an all-ones input over three tiles ends as data[i] = i, for
\* the exclusive pipeline of PrefixSum.
C2_Witness ==
    /\ shader = EXCLUSIVE_SHADER_U32 /\ ScanFinished /\ ThreeTiles /\ AllOnes
    /\ \A i \in DOMAIN data : data[i] = i

\* The dispatch at the head of the queue is running in this state.
InDispatch == wg # <<>>

\* Tag transitions of the record of workgroup g that the protocol allows.
TagMove(g, t, u) ==
    \/ u = t
    \/ t = TAG_EMPTY /\ u = TAG_LOCAL
    \/ t = TAG_LOCAL /\ u = TAG_GLOBAL
    \/ t = TAG_EMPTY /\ u = TAG_GLOBAL /\ g = 0

\* C5: scan status monotonicity.  Within one dispatch every record's tag only
\* moves EMPTY -> LOCAL -> GLOBAL (EMPTY -> GLOBAL for workgroup 0), never
\* backwards, and the value stored with a LOCAL or GLOBAL tag does not change
\* while that tag stays in place.
C5_StatusMonotone ==
    [][(shader \in ScanShaders /\ InDispatch /\ wg' # <<>>) =>
        \A g \in DOMAIN group_state :
            LET old == group_state[g]
                new == group_state'[g]
            IN  /\ TagMove(g, Tag(old), Tag(new))
                /\ (Tag(old) = Tag(new) /\ Tag(old) # TAG_EMPTY) =>
                       ValueFor(old, Tag(old)) = ValueFor(new, Tag(new))]_vars

\* Witness of C5: during a dispatch a workgroup g > 0 has moved on to GLOBAL
\* while a later one is still LOCAL.
C5_Witness ==
    /\ shader \in ScanShaders /\ InDispatch
    /\ \E g, h \in DOMAIN group_state :
        /\ 0 < g /\ g < h
        /\ Tag(group_state[g]) = TAG_GLOBAL
        /\ Tag(group_state[h]) = TAG_LOCAL

\* C6: scan status value invariant.  During a dispatch a LOCAL record of
\* workgroup g holds the tile aggregate a_g and a GLOBAL record holds
\* a_0 + ... + a_g; the exclusive prefix a workgroup carries out of its
\* look-back is a_0 + ... + a_(g-1).
C6_StatusValue ==
    (shader \in ScanShaders /\ InDispatch) =>
        /\ \A g \in DOMAIN group_state :
            LET rec == group_state[g]
            IN  /\ Tag(rec) = TAG_LOCAL => ValueFor(rec, TAG_LOCAL) = RefAggregate(g)
                /\ Tag(rec) = TAG_GLOBAL =>
                       ValueFor(rec, TAG_GLOBAL) = RefInclusivePrefix(g)
        /\ \A w \in DOMAIN wg :
            wg[w].pc \in {"publish_global", "publish_global_status", "write"} =>
                wg[w].prefix = RefExclusivePrefix(wg[w].id)

\* Witness of C6: workgroup 2 finished its look-back over a LOCAL record of
\* workgroup 1 (it went on to index 0) and carries a non-zero prefix.
C6_Witness ==
    /\ shader \in ScanShaders /\ InDispatch
    /\ \E w \in DOMAIN wg :
        /\ wg[w].id = 2 /\ wg[w].pc = "write" /\ wg[w].j = 0
        /\ wg[w].prefix = RefExclusivePrefix(2) /\ wg[w].prefix > 1
        /\ Tag(group_state[2]) = TAG_GLOBAL

\* Workgroups of the running dispatch that hold an ID.
Acquired == {w \in DOMAIN wg : wg[w].pc # "start"}

\* C9: no torn status reads.  Whenever a look-back step adds a value to its
\* prefix, the value is the aggregate of the inspected predecessor if the tag
\* it saw was LOCAL (the look-back goes on) and the predecessor's inclusive
\* prefix if the tag was GLOBAL (the look-back stops).
C9_NoTornRead ==
    [][(shader \in ScanShaders /\ InDispatch /\ wg' # <<>>) =>
        \A w \in DOMAIN wg :
            (/\ wg[w].pc \in {"lookback", "read_value"}
             /\ wg'[w] # wg[w]
             /\ wg'[w].pc \in {"lookback", "publish_global"}) =>
                wg'[w].prefix = wg[w].prefix +
                    (IF wg'[w].pc = "publish_global"
                     THEN RefInclusivePrefix(wg[w].j)
                     ELSE RefAggregate(wg[w].j))]_vars

\* Witness of C9: with the three-word record, a workgroup has read the status
\* LOCAL of a predecessor that has since published GLOBAL, and has not yet
\* read the value word.
C9_Witness ==
    /\ WordGranular /\ InDispatch
    /\ \E w \in DOMAIN wg :
        /\ wg[w].pc = "read_value" /\ wg[w].seen = TAG_LOCAL
        /\ Tag(group_state[wg[w].j]) = TAG_GLOBAL
        /\ group_state[wg[w].j].inclusive_prefix # group_state[wg[w].j].aggregate

----------------------------------------------------------------------------
(* Reference values of the radix sort, computed from the recorded input. *)

SortFinished == shader \in SortShaders /\ encodes > 0 /\ Idle

\* The elements the sort was asked to process.
Live == 0 .. ElementCount - 1

\* Position of input element i in the stable sort of the first n keys: the
\* keys smaller than it, and the equal keys before it.
StableRank(i) ==
    Cardinality({j \in Live : input[j] < input[i]})
    + Cardinality({j \in Live : j < i /\ input[j] = input[i]})

ScatterRunning == queue # <<>> /\ IsDispatch(Head0) /\ Head0.kernel = "bucket_scatter"

\* The workgroup whose tile holds element i has finished its scatter step.
HasScattered(i) ==
    \E w \in DOMAIN wg : wg[w].pc = "done" /\ wg[w].id = i \div ScatterSegmentSize

\* global_offset[p][d] + the elements with digit d at input positions < i, for
\* the pass at the head of the queue and the element i of its data_in.
Placement(i) ==
    LET keys_in == Buffer(Head0.bind.keys_in)
        p == Head0.uniforms.radix_group
        d == DigitOf(keys_in[i], RADIX_SIZE * p)
    IN  global_bucket_data[p][d]
        + Cardinality({j \in Live : j < i /\ DigitOf(keys_in[j], RADIX_SIZE * p) = d})

----------------------------------------------------------------------------
(* Claims about the radix sort. *)

\* C3 (radix sort correctness): once a RadixSort encode has executed, the
\* first n elements of the primary buffer are the input keys at their stable-sort
\* positions, hence a non-decreasing permutation of the input, and the elements
\* past n are untouched.
C3_RadixSort ==
    (SortFinished /\ shader = BUCKET_SCATTER_SHADER_U32) =>
        /\ DOMAIN data = DOMAIN input
        /\ \A i \in Live : data[StableRank(i)] = input[i]
        /\ \A i \in Live : i + 1 \in Live => data[i] <= data[i + 1]
        /\ \A i \in DOMAIN input : i >= ElementCount => data[i] = input[i]

\* A direct sort of three keys over two tiles, with a repeated key, that the
\* sort had to reorder.
C3_Witness ==
    /\ SortFinished /\ shader = BUCKET_SCATTER_SHADER_U32
    /\ ~dispatch_indirect
    /\ input = [i \in 0 .. 2 |-> <<9, 2, 2>>[i + 1]]
    /\ data = [i \in 0 .. 2 |-> <<2, 2, 9>>[i + 1]]

\* C4 (radix sort-by stability): once a RadixSortBy encode has executed, the
\* value and the key of input position i both sit at the stable-sort position
\* of i, so keys are non-decreasing and values of equal keys keep their input
\* order.
C4_RadixSortBy ==
    (SortFinished /\ shader = SHADER_TEMPLATE_U32) =>
        /\ DOMAIN data = DOMAIN input /\ DOMAIN values = DOMAIN input
        /\ \A i \in Live : /\ data[StableRank(i)] = input[i]
                           /\ values[StableRank(i)] = Positions(BufLen(input))[i]
        /\ \A i \in Live : i + 1 \in Live => data[i] <= data[i + 1]
        /\ \A a, b \in Live :
              (a < b /\ input[a] = input[b]) => StableRank(a) < StableRank(b)

\* A sort-by whose equal keys sit in different tiles and were moved.
C4_Witness ==
    /\ SortFinished /\ shader = SHADER_TEMPLATE_U32
    /\ input = [i \in 0 .. 2 |-> <<5, 9, 5>>[i + 1]]
    /\ data = [i \in 0 .. 2 |-> <<5, 5, 9>>[i + 1]]
    /\ values = [i \in 0 .. 2 |-> <<0, 2, 1>>[i + 1]]

\* C10 (bucket scatter placement): during every scatter pass, once the
\* workgroup of input element i < n has scattered (and for all i < n once all
\* workgroups have), data_out[global_offset[p][d] + #(elements with digit d
\* before i)] holds element i, and in the key-value variant values_out holds
\* its value at the same index; these destinations are in [0, n) and no two
\* elements share one.
C10_ScatterPlacement ==
    (ScatterRunning /\ wg # <<>>) =>
        LET keys_in == Buffer(Head0.bind.keys_in)
            keys_out == Buffer(Head0.bind.keys_out)
        IN  /\ \A i \in Live : (AllDone \/ HasScattered(i)) =>
                  /\ Placement(i) \in Live
                  /\ keys_out[Placement(i)] = keys_in[i]
                  /\ ByVariant =>
                       Buffer(Head0.bind.values_out)[Placement(i)]
                           = Buffer(Head0.bind.values_in)[i]
            /\ \A a, b \in Live : a # b => Placement(a) # Placement(b)

\* The second pass of a three-key sort-by, both workgroups done, the element of
\* the second workgroup placed before the first element of the first.
C10_Witness ==
    /\ ScatterRunning /\ AllDone /\ Len(wg) = 2 /\ ByVariant
    /\ Head0.uniforms.radix_group = 1
    /\ input = [i \in 0 .. 2 |-> <<2, 9, 5>>[i + 1]]
    /\ Placement(0) = 2 /\ Placement(2) = 1

----------------------------------------------------------------------------
(* Claims about the look-back protocol of the scan and the scatter. *)

\* A dispatch of a kernel that acquires its workgroup IDs from the group counter.
LookBackDispatch ==
    /\ queue # <<>> /\ IsDispatch(Head0)
    /\ Head0.kernel \in {"prefix_sum", "bucket_scatter"}
    /\ wg # <<>>

AcquiredIds == {wg[w].id : w \in Acquired}

\* The predecessors workgroup w is inspecting: one in the scan, one per digit
\* whose thread is in its look-back in the scatter.
Inspecting(w) ==
    IF Head0.kernel = "prefix_sum"
    THEN (IF wg[w].pc \in {"lookback", "read_value"} THEN {wg[w].j} ELSE {})
    ELSE (IF wg[w].pc = "lanes"
          THEN {wg[w].lane[d].j : d \in {e \in Digits : wg[w].lane[e].pc = "lookback"}}
          ELSE {})

\* Every status entry of the workgroups of the dispatch is final.
AllGlobal ==
    \A g \in 0 .. Len(wg) - 1 :
        /\ g \in DOMAIN group_state
        /\ IF Head0.kernel = "prefix_sum"
           THEN Tag(group_state[g]) = TAG_GLOBAL
           ELSE \A d \in Digits : group_state[g][d].status = GlobalOffset

\* C7 (look-back progress): under fair scheduling every dispatch of the scan or
\* scatter kernel reaches the state where all of its workgroups have finished
\* and published GLOBAL / GlobalOffset, and every recorded command stream runs
\* to completion.
C7_LookBackProgress ==
    /\ LookBackDispatch ~> (LookBackDispatch /\ AllDone /\ AllGlobal)
    /\ (queue # <<>>) ~> Idle

\* A scan workgroup that read EMPTY from its predecessor and is waiting.
C7_Witness ==
    /\ LookBackDispatch
    /\ \E w \in DOMAIN wg :
          /\ Inspecting(w) # {}
          /\ \E j \in Inspecting(w) :
                IF Head0.kernel = "prefix_sum"
                THEN Tag(group_state[j]) = TAG_EMPTY
                ELSE \E d \in Digits : /\ wg[w].lane[d].pc = "lookback"
                                       /\ wg[w].lane[d].j = j
                                       /\ group_state[j][d].status = NotReady

\* C8 (ordered ID acquisition): in every dispatch of the scan or scatter
\* kernel the IDs acquired so far are pairwise distinct and are exactly
\* 0 .. k-1 for the k workgroups that have acquired one, the group counter is k
\* (W once all have), and every predecessor j a workgroup with ID g inspects
\* has 0 <= j < g and is held by a workgroup that has acquired its ID.
C8_OrderedIds ==
    LookBackDispatch =>
        /\ \A v, w \in Acquired : v # w => wg[v].id # wg[w].id
        /\ AcquiredIds = 0 .. Cardinality(Acquired) - 1
        /\ group_counter = Cardinality(Acquired)
        /\ AllDone => group_counter = Len(wg)
        /\ \A w \in Acquired : \A j \in Inspecting(w) :
              j < wg[w].id /\ j \in AcquiredIds

\* In the last scatter pass of a sort, after the counter was reused by three
\* passes, the second workgroup inspects workgroup 0 with the counter at W.
C8_Witness ==
    /\ LookBackDispatch
    /\ Head0.kernel = "bucket_scatter" /\ Head0.uniforms.radix_group = 3
    /\ Len(wg) = 2 /\ group_counter = 2
    /\ \E w \in DOMAIN wg : wg[w].id = 1 /\ Inspecting(w) = {0}

----------------------------------------------------------------------------
(* Claims about the per-digit status slots of the scatter. *)

\* Elements below the count at data_in positions lo .. hi - 1 whose digit of
\* the running pass is d.
DigitCount(lo, hi, d) ==
    LET keys_in == Buffer(Head0.bind.keys_in)
    IN  Cardinality({i \in Live : /\ lo <= i /\ i < hi
                                  /\ DigitOf(keys_in[i],
                                         RADIX_SIZE * Head0.uniforms.radix_group) = d})

\* First data_in position of the tile of workgroup ID g.
TileStart(g) == g * ScatterSegmentSize

\* C11 (per-digit look-back result): in every state of a scatter dispatch, a
\* look-back thread that has walked down to predecessor j holds the number of
\* digit-d elements in the tiles of IDs j+1 .. g-1, a finished look-back holds
\* the number in all tiles of IDs < g, a LocalOffset slot holds c_g[d] and a
\* GlobalOffset slot holds the number in the tiles of IDs <= g.
C11_LookBackSum ==
    (ScatterRunning /\ wg # <<>>) =>
        /\ \A w \in DOMAIN wg : \A d \in Digits :
              LET g == wg[w].id
                  lane == wg[w].lane[d]
              IN  /\ (wg[w].pc = "lanes" /\ lane.pc = "lookback") =>
                        lane.sum = DigitCount(TileStart(lane.j + 1), TileStart(g), d)
                  /\ (wg[w].pc \in {"lanes", "done"}
                        /\ lane.pc \in {"publish_global", "done"}) =>
                        lane.sum = DigitCount(0, TileStart(g), d)
        /\ \A g \in DOMAIN group_state : \A d \in Digits :
              LET slot == group_state[g][d]
              IN  /\ slot.status = LocalOffset =>
                        slot.value = DigitCount(TileStart(g), TileStart(g + 1), d)
                  /\ slot.status = GlobalOffset =>
                        slot.value = DigitCount(0, TileStart(g + 1), d)

\* The second workgroup finished a look-back over a LocalOffset slot of
\* workgroup 0 and found one element there, and workgroup 0 has since
\* published a GlobalOffset of two in the other digit.
C11_Witness ==
    /\ ScatterRunning
    /\ \E w \in DOMAIN wg : \E d \in Digits :
          /\ wg[w].id = 1 /\ wg[w].pc = "lanes"
          /\ wg[w].lane[d].pc = "publish_global" /\ wg[w].lane[d].sum = 1
          /\ group_state[0][d] = PackedData(LocalOffset, 1)
    /\ \E d \in Digits : group_state[0][d].status = GlobalOffset

\* Status moves of one slot that the protocol allows.
StatusMove(s, t) ==
    \/ t = s
    \/ s = NotReady /\ t = LocalOffset
    \/ s = LocalOffset /\ t = GlobalOffset

\* C12 (per-digit status monotonicity): a step taken within one scatter
\* dispatch moves the status of a slot only NotReady -> LocalOffset ->
\* GlobalOffset, never backwards, and changes the slot of one digit of one
\* workgroup at a time.
C12_DigitStatusMonotone ==
    [][(ScatterRunning /\ wg # <<>> /\ wg' # <<>>) =>
         /\ DOMAIN group_state' = DOMAIN group_state
         /\ \A g \in DOMAIN group_state : \A d \in Digits :
               StatusMove(group_state[g][d].status, group_state'[g][d].status)
         /\ Cardinality({gd \in (DOMAIN group_state) \X Digits :
               group_state'[gd[1]][gd[2]] # group_state[gd[1]][gd[2]]}) <= 1]_vars

\* In the third pass the two digits of one workgroup stand at different
\* statuses: one final, one still NotReady.
C12_Witness ==
    /\ ScatterRunning /\ Head0.uniforms.radix_group = 2
    /\ \E g \in DOMAIN group_state : \E d, e \in Digits :
          /\ group_state[g][d].status = GlobalOffset
          /\ group_state[g][e].status = NotReady
    /\ \E g \in DOMAIN group_state : \E d \in Digits :
          group_state[g][d].status = LocalOffset

\* The thread of digit d of workgroup w takes its publishing step `pc`.
Publishes(w, d, pc) ==
    /\ w \in DOMAIN wg /\ w \in DOMAIN wg'
    /\ wg[w].pc = "lanes" /\ wg[w].lane[d].pc = pc
    /\ wg'[w].lane[d].pc # pc

----------------------------------------------------------------------------
(* Claims about the histogram and the bucket offsets. *)

\* Keys among the first n of the recorded input whose digit of pass p is d.
RefHistogram(p, d) ==
    Cardinality({i \in Live : DigitOf(input[i], RADIX_SIZE * p) = d})

\* The bucket histogram of the running encode is complete: all of its
\* workgroups have finished, or it has retired and the offsets kernel has not
\* started.
HistogramComplete ==
    /\ shader \in SortShaders /\ queue # <<>>
    /\ \/ IsDispatch(Head0) /\ Head0.kernel = "bucket_histogram" /\ wg # <<>> /\ AllDone
       \/ Head0 = CmdGlobalBucketOffsets /\ wg = <<>>

\* C14 (histogram invariant): once the bucket histogram of an encode is
\* complete, the first or a later one on the instance, every row p sums to n
\* and H[p][d] is the number of keys among the first n whose digit p is d; keys
\* at index >= n are not counted.
C14_Histogram ==
    HistogramComplete =>
        \A p \in Passes :
            /\ \A d \in Digits : global_bucket_data[p][d] = RefHistogram(p, d)
            /\ SumTo(global_bucket_data[p], 0, RADIX_DIGITS) = ElementCount

\* The histogram of a second encode on the instance, with a count one short of
\* three keys, the last of which differs from the one before it.
C14_Witness ==
    /\ HistogramComplete /\ encodes = 2
    /\ dispatch_indirect /\ ElementCount = 2 /\ BufLen(input) = 3
    /\ input[2] # input[1]
    /\ global_bucket_data[0][1] = 2

\* Sum of the original histogram counts of row p over the digits below d.
RefOffset(p, d) ==
    Cardinality({i \in Live : DigitOf(input[i], RADIX_SIZE * p) < d})

OffsetsRunning ==
    /\ shader \in SortShaders /\ queue # <<>>
    /\ IsDispatch(Head0) /\ Head0.kernel = "global_bucket_offsets"
    /\ wg # <<>>

\* The offsets kernel of the last encode has retired.
OffsetsRetired ==
    /\ shader \in SortShaders /\ encodes > 0
    /\ \/ queue = <<>>
       \/ Head0 \in {CmdClearGroupCounter, CmdClearGroupState}
       \/ ScatterRunning

\* C15 (global bucket offsets): while the offsets kernel runs, the row of a
\* workgroup that has finished holds the exclusive prefix sums of the original
\* counts of that row (0 in digit 0) and every other row still holds its
\* counts; once the kernel has retired every row holds its exclusive prefix
\* sums, until the end of the sort.
C15_GlobalBucketOffsets ==
    /\ OffsetsRunning =>
          \A w \in DOMAIN wg : \A d \in Digits :
              LET p == wg[w].id
              IN  p \in Passes =>
                    global_bucket_data[p][d] =
                        IF wg[w].pc = "done" THEN RefOffset(p, d) ELSE RefHistogram(p, d)
    /\ OffsetsRetired =>
          \A p \in Passes : \A d \in Digits : global_bucket_data[p][d] = RefOffset(p, d)

\* Row 2 is converted while row 0 still holds its counts, for keys 2, 5, 9.
C15_Witness ==
    /\ OffsetsRunning
    /\ input = [i \in 0 .. 2 |-> <<2, 5, 9>>[i + 1]] /\ ElementCount = 3
    /\ global_bucket_data[2] = [d \in Digits |-> IF d = 0 THEN 0 ELSE 2]
    /\ global_bucket_data[0] = [d \in Digits |-> IF d = 0 THEN 1 ELSE 2]

----------------------------------------------------------------------------
(* Claims about the recorded commands of the radix sort. *)

\* The stage a command stands for: the kernel of a dispatch, or else its op.
Stage(cmd) == IF IsDispatch(cmd) THEN cmd.kernel ELSE cmd.op

IsScatter(cmd) == Stage(cmd) = "bucket_scatter"

\* The scatter dispatches of a command list, in recorded order.
ScatterCmds(q) == SelectSeq(q, IsScatter)

\* The positions of a command list that hold a given stage.
At(q, stage) == {i \in 1 .. Len(q) : Stage(q[i]) = stage}

\* The first n elements of the primary buffers are the stable sort of the
\* recorded input, and the rest is untouched.
StablySorted ==
    /\ DOMAIN data = DOMAIN input
    /\ \A i \in Live : data[StableRank(i)] = input[i]
    /\ \A i \in DOMAIN input : i >= ElementCount => data[i] = input[i]
    /\ ByVariant =>
          /\ DOMAIN values = DOMAIN input
          /\ \A i \in Live : values[StableRank(i)] = Positions(BufLen(input))[i]
          /\ \A i \in DOMAIN input :
                i >= ElementCount => values[i] = Positions(BufLen(input))[i]

\* All workgroups of the second and last pass of a half-precision sort have
\* finished.
HalfPassesDone ==
    /\ ScatterRunning /\ Len(queue) = 1
    /\ Head0.uniforms.radix_group = 1
    /\ wg # <<>> /\ AllDone

\* C20 (half-precision sort): encode_half_precision records one histogram and
\* one offsets dispatch followed by exactly two scatter passes, of radix groups
\* 0 and 1 at radix offsets 0 and RADIX_SIZE; for keys below RADIX_DIGITS ^ 2
\* the primary buffers end stably sorted, as they do after the full sort of
\* the same inputs.
C20_HalfPrecision ==
    /\ [][EncodeHalfPrecision =>
            LET q == queue'
                s == ScatterCmds(q)
            IN  /\ Len(s) = 2
                /\ \A i \in 1 .. 2 :
                      s[i].uniforms = [radix_offset |-> RADIX_SIZE * (i - 1),
                                       radix_group |-> i - 1]
                /\ Cardinality(At(q, "bucket_histogram")) = 1
                /\ Cardinality(At(q, "global_bucket_offsets")) = 1
                /\ \A h \in At(q, "bucket_histogram") :
                   \A o \in At(q, "global_bucket_offsets") :
                   \A b \in At(q, "bucket_scatter") : h < o /\ o < b]_vars
    /\ []((HalfPassesDone \/ SortFinished) => StablySorted)

\* A half-precision sort-by of keys 3, 1, 2 whose second pass has finished.
C20_Witness ==
    /\ HalfPassesDone /\ ByVariant
    /\ input = [i \in 0 .. 2 |-> <<3, 1, 2>>[i + 1]]
    /\ data = [i \in 0 .. 2 |-> <<1, 2, 3>>[i + 1]]
    /\ values = [i \in 0 .. 2 |-> <<1, 2, 0>>[i + 1]]

IsStage(cmd) == cmd \notin {CmdClearGroupCounter, CmdClearGroupState}

\* The stages of a command list in recorded order, the clears of the look-back
\* scratch state left out.
Stages(q) ==
    LET s == SelectSeq(q, IsStage)
    IN  [i \in 1 .. Len(s) |-> Stage(s[i])]

\* C16 (radix sort command order): every encode records the dispatch generator
\* exactly when a count was passed, then the clear of H, the histogram, the
\* offsets and P scatter passes of radix groups 0 .. P - 1 in this order, with P
\* 2 or RADIX_GROUPS; and in the commands still to execute no scatter pass
\* ever precedes the offsets kernel and the histogram never precedes the clear
\* of H.
C16_CommandOrder ==
    /\ [][encodes' = encodes + 1 =>
            LET s == ScatterCmds(queue')
                P == Len(s)
            IN  /\ P \in {2, RADIX_GROUPS}
                /\ \A i \in 1 .. P : s[i].uniforms.radix_group = i - 1
                /\ Stages(queue') =
                      (IF dispatch_indirect' THEN <<"generate_dispatches">> ELSE <<>>)
                      \o <<"clear_buffer(global_bucket_data)", "bucket_histogram",
                           "global_bucket_offsets">>
                      \o [i \in 1 .. P |-> "bucket_scatter"]]_vars
    /\ [](\A i, j \in 1 .. Len(queue) :
            i < j =>
              /\ ~(IsScatter(queue[i]) /\ Stage(queue[j]) = "global_bucket_offsets")
              /\ ~(Stage(queue[i]) = "bucket_histogram"
                   /\ Stage(queue[j]) = "clear_buffer(global_bucket_data)"))

\* A full sort-by with a count, as recorded.
C16_Witness ==
    /\ ByVariant /\ encodes = 1 /\ dispatch_indirect
    /\ Len(queue) = 4 + 3 * RADIX_GROUPS
    /\ Stage(queue[1]) = "generate_dispatches"
    /\ ScatterCmds(queue)[RADIX_GROUPS].uniforms.radix_group = RADIX_GROUPS - 1

\* The k low digits of a key.
LowDigits(key, k) == key % (RADIX_DIGITS ^ k)

\* Position of input element i in the stable sort of the first n keys by their
\* k low digits.
StableRankLow(i, k) ==
    Cardinality({j \in Live : LowDigits(input[j], k) < LowDigits(input[i], k)})
    + Cardinality({j \in Live : j < i /\ LowDigits(input[j], k) = LowDigits(input[i], k)})

\* All workgroups of the scatter pass at the head of the queue have finished.
PassDone == ScatterRunning /\ wg # <<>> /\ AllDone

\* C17 (ping-pong and final location): pass i is recorded reading the primary
\* and writing the temporary buffers when i is even and the reverse when i is
\* odd, each pass reading what the pass before it writes and the last pass
\* writing the primary buffers, values bound like keys in a sort-by; when pass
\* i has run, the buffer it wrote (temporary for even i, primary for odd i)
\* holds the input stably sorted by its i + 1 low digits, and the finished
\* sort leaves the stably sorted keys (and values) in the primary buffers.
C17_PingPong ==
    /\ [][encodes' = encodes + 1 =>
            LET s == ScatterCmds(queue')
            IN  /\ \A i \in 1 .. Len(s) :
                      LET b == s[i].bind
                          even == s[i].uniforms.radix_group % 2 = 0
                      IN  /\ b.keys_in = IF even THEN "data" ELSE "temporary_storage"
                          /\ b.keys_out = IF even THEN "temporary_storage" ELSE "data"
                          /\ ByVariant =>
                                /\ b.values_in = IF even THEN "values" ELSE "temporary_values"
                                /\ b.values_out = IF even THEN "temporary_values" ELSE "values"
                /\ \A i \in 1 .. Len(s) - 1 :
                      /\ s[i + 1].bind.keys_in = s[i].bind.keys_out
                      /\ ByVariant => s[i + 1].bind.values_in = s[i].bind.values_out
                /\ s[Len(s)].bind.keys_out = "data"
                /\ ByVariant => s[Len(s)].bind.values_out = "values"]_vars
    /\ [](PassDone =>
            LET p == Head0.uniforms.radix_group
                keys_out == IF p % 2 = 0 THEN temporary_storage ELSE data
                values_out == IF p % 2 = 0 THEN temporary_values ELSE values
            IN  \A i \in Live :
                   /\ keys_out[StableRankLow(i, p + 1)] = input[i]
                   /\ ByVariant => values_out[StableRankLow(i, p + 1)] = i)
    /\ [](SortFinished => StablySorted)

\* The second pass of a full sort-by of keys 3, 1, 2 has run: the temporary
\* buffer holds the keys ordered by their low digit and the primary buffer the
\* keys ordered by their two low digits.
C17_Witness ==
    /\ PassDone /\ ByVariant /\ Len(queue) > 1
    /\ Head0.uniforms.radix_group = 1
    /\ input = [i \in 0 .. 2 |-> <<3, 1, 2>>[i + 1]] /\ ElementCount = 3
    /\ temporary_storage = [i \in 0 .. 2 |-> <<2, 3, 1>>[i + 1]]
    /\ data = [i \in 0 .. 2 |-> <<1, 2, 3>>[i + 1]]
    /\ values = [i \in 0 .. 2 |-> <<1, 2, 0>>[i + 1]]

----------------------------------------------------------------------------
(* Claims about the preconditions of the radix sort. *)

\* C18 (RadixSort preconditions): commands of a RadixSort encode are recorded
\* only for data and temporary buffers of equal length, and a data length
\* below 2^30.
C18_RadixSortPreconditions ==
    (shader = BUCKET_SCATTER_SHADER_U32 /\ queue # <<>>) =>
        /\ BufLen(data) = BufLen(temporary_storage)
        /\ BufLen(data) < 2 ^ 30

\* C19 (RadixSortBy preconditions): commands of a RadixSortBy encode are
\* recorded only for keys, values, temporary key storage and temporary value
\* storage of one length, below 2^30.
C19_RadixSortByPreconditions ==
    (shader = SHADER_TEMPLATE_U32 /\ queue # <<>>) =>
        /\ BufLen(values) = BufLen(data)
        /\ BufLen(temporary_storage) = BufLen(data)
        /\ BufLen(temporary_values) = BufLen(data)
        /\ BufLen(data) < 2 ^ 30

----------------------------------------------------------------------------
(* Claims about gather and scatter. *)

\* A gather or scatter into the output buffer, not part of a round trip.
Plain == ~RoundTrip /\ encodes = 1

GatherFinished == shader = GATHER_BY_SHADER_TEMPLATE /\ Plain /\ Idle

\* C23 (gather): after a GatherBy encode without a count has executed, with
\* the output as long as the index buffer and every index inside the
\* source, output[i] = source[gather_by[i]] for every i of the index buffer.
C23_Gather ==
    (GatherFinished /\ ~dispatch_indirect) =>
        \A i \in DOMAIN by : output[i] = input[by[i]]

\* Thread i of the scatter has written.
HasRun(i) ==
    \E w \in DOMAIN wg : wg[w].id = i \div GROUP_SIZE /\ i \notin wg[w].pending

ScatterByRunning ==
    /\ shader = SCATTER_BY_SHADER_TEMPLATE /\ Plain
    /\ queue # <<>> /\ IsDispatch(Head0) /\ wg # <<>>

ScatterFinished == shader = SCATTER_BY_SHADER_TEMPLATE /\ Plain /\ Idle

\* C24 (scatter): for a permutation scatter_by of [0, |src|) and an output at
\* least as long, every output slot j below |src| has exactly one thread i
\* with scatter_by[i] = j; while the kernel runs the slot holds source[i] once
\* thread i (an i below the count) has written and is untouched before,
\* after the encode has executed output[scatter_by[i]] = source[i] for every
\* i below the count, and all other slots are untouched.
C24_Scatter ==
    /\ (ScatterByRunning \/ ScatterFinished) =>
          \A j \in 0 .. BufLen(input) - 1 :
              Cardinality({i \in DOMAIN by : by[i] = j}) = 1
    /\ ScatterByRunning =>
          \A i \in DOMAIN by :
              output[by[i]] = IF i < ElementCount /\ HasRun(i) THEN input[i] ELSE 0
    /\ ScatterFinished =>
          /\ \A i \in DOMAIN by :
                output[by[i]] = IF i < ElementCount THEN input[i] ELSE 0
          /\ \A j \in DOMAIN output : j >= BufLen(input) => output[j] = 0

\* The reversal of three elements, scattered into a longer output.
C24_Witness ==
    /\ ScatterFinished /\ ~dispatch_indirect
    /\ by = [i \in 0 .. 2 |-> 2 - i]
    /\ input = [i \in 0 .. 2 |-> <<1, 2, 2>>[i + 1]]
    /\ output = [i \in 0 .. 3 |-> <<2, 2, 1, 0>>[i + 1]]

RoundTripFinished ==
    shader = SCATTER_BY_SHADER_TEMPLATE /\ RoundTrip /\ encodes = 2 /\ Idle

\* C25 (gather/scatter inversion): gathering X by a permutation and scattering
\* the result by the same permutation returns X.
C25_RoundTrip ==
    RoundTripFinished => output = input

\* A permutation that is not its own inverse, and the gathered buffer in
\* between.
C25_Witness ==
    /\ RoundTripFinished
    /\ by = [i \in 0 .. 2 |-> (i + 1) % 3]
    /\ input = [i \in 0 .. 2 |-> <<1, 2, 2>>[i + 1]]
    /\ temporary_storage = [i \in 0 .. 2 |-> <<2, 2, 1>>[i + 1]]
    /\ output = input

----------------------------------------------------------------------------
(* Claims about find-runs. *)

\* Element i of the recorded data starts a maximal run.
IsRunStart(i) == i = 0 \/ input[i] # input[i - 1]

\* The number of maximal runs that start at or before element i.
RunIndex(i) == Cardinality({j \in 0 .. i : IsRunStart(j)})

RunsFinished == shader = MARK_RUN_STARTS_SHADER_U32 /\ encodes > 0 /\ Idle

\* C21 (find-runs cover): after a FindRuns encode over n >= 1 elements has
\* executed, R = run_count is the number of maximal runs of the first n
\* elements, run_starts[0] = 0, run_starts is strictly increasing below R, and
\* the elements from run_starts[r] up to the next start (n for the last run)
\* are equal and differ from the element before the run.
C21_FindRunsCover ==
    RunsFinished =>
        LET n == ElementCount
            R == run_count
            End(r) == IF r = R - 1 THEN n ELSE run_starts[r + 1]
        IN  /\ R = Cardinality({i \in Live : IsRunStart(i)})
            /\ run_starts[0] = 0
            /\ \A r \in 0 .. R - 2 : run_starts[r] < run_starts[r + 1]
            /\ \A r \in 0 .. R - 1 :
                  /\ \A i \in run_starts[r] .. End(r) - 1 : input[i] = input[run_starts[r]]
                  /\ run_starts[r] > 0 => input[run_starts[r]] # input[run_starts[r] - 1]

\* Three runs in four elements, the second of length two.
C21_Witness ==
    /\ RunsFinished /\ ~dispatch_indirect
    /\ input = [i \in 0 .. 3 |-> <<0, 1, 1, 0>>[i + 1]]
    /\ run_count = 3
    /\ run_starts = [i \in 0 .. 3 |-> <<0, 1, 3, 3>>[i + 1]]

RunsHead(kernel) ==
    /\ shader = MARK_RUN_STARTS_SHADER_U32 /\ queue # <<>>
    /\ IsDispatch(Head0) /\ Head0.kernel = kernel

\* The mark kernel has run and the scan has not started.
Marked == RunsHead("mark_run_starts") /\ wg # <<>> /\ AllDone

\* The scan has retired: the collect or the resolve kernel is at the head of
\* the queue, or the encode has executed.
Scanned == RunsHead("collect_run_starts") \/ RunsHead("resolve_run_count") \/ RunsFinished

\* C22 (find-runs mapping): after the mark stage run_mapping[i] is 1 exactly
\* at i = 0 and where data[i] # data[i - 1], and 0 otherwise; after the scan
\* run_mapping[i] is the 1-based index of the run of i, so it does not decrease
\* and grows by exactly 1 at each run start; and the resolve stage leaves
\* run_count = run_mapping[n - 1], the maximum of run_mapping and the number
\* of runs.
C22_FindRunsMapping ==
    /\ Marked =>
          \A i \in Live : run_mapping[i] = IF IsRunStart(i) THEN 1 ELSE 0
    /\ Scanned =>
          /\ \A i \in Live : run_mapping[i] = RunIndex(i)
          /\ \A i \in Live :
                i > 0 => run_mapping[i] - run_mapping[i - 1] = IF IsRunStart(i) THEN 1 ELSE 0
    /\ RunsFinished =>
          /\ run_count = run_mapping[ElementCount - 1]
          /\ \A i \in Live : run_mapping[i] <= run_count
          /\ run_count = Cardinality({i \in Live : IsRunStart(i)})

\* The scan of the marks of 0, 1, 1, 0 has retired with a count of three.
C22_Witness ==
    /\ RunsHead("collect_run_starts") /\ dispatch_indirect /\ count = 3
    /\ input = [i \in 0 .. 3 |-> <<0, 1, 1, 0>>[i + 1]]
    /\ run_mapping = [i \in 0 .. 3 |-> <<1, 2, 2, 0>>[i + 1]]

----------------------------------------------------------------------------
(* Claims about the count. *)

\* The first n elements of a buffer, n the count the kernels read.
FirstN(buf) == [i \in 0 .. ElementCount - 1 |-> buf[i]]

\* What the primitives compute of an array `a` that is all there is.
ScanOf(a) == [i \in DOMAIN a |-> SumTo(a, 0, IF Inclusive THEN i + 1 ELSE i)]

RankIn(a, i) ==
    Cardinality({j \in DOMAIN a : a[j] < a[i]})
    + Cardinality({j \in DOMAIN a : j < i /\ a[j] = a[i]})

ArgSortOf(a) == [k \in DOMAIN a |-> CHOOSE i \in DOMAIN a : RankIn(a, i) = k]

SortOf(a) == [k \in DOMAIN a |-> a[ArgSortOf(a)[k]]]

RunStartsOf(a) == {i \in DOMAIN a : i = 0 \/ a[i] # a[i - 1]}

RunMappingOf(a) == [i \in DOMAIN a |-> Cardinality({j \in RunStartsOf(a) : j <= i})]

GatherOf(idx, a) == [i \in DOMAIN idx |-> a[idx[i]]]

ScatterOf(idx, a) == [j \in DOMAIN idx |-> a[CHOOSE i \in DOMAIN idx : idx[i] = j]]

\* The first n indices stay inside the first n elements: the gather or
\* scatter of the first n elements alone is a valid call.
Closed == \A i \in DOMAIN FirstN(by) : by[i] < ElementCount

\* An encode of the instance has executed.
Finished == encodes > 0 /\ Idle

\* C26 (indirect equivalence): once an encode has executed, with a count n
\* passed over buffers of length N >= n or with no count over buffers of
\* length n, the first n elements of the output are what the primitive
\* computes of the first n input elements alone: their scan, their stable
\* sort (keys and values), their run mapping, run starts and run count, their
\* gather and their scatter (for indices that stay inside the first n
\* elements, index and source buffers of one length).
C26_IndirectEquivalence ==
    Finished =>
        /\ shader \in ScanShaders => FirstN(data) = ScanOf(FirstN(input))
        /\ shader \in SortShaders => FirstN(data) = SortOf(FirstN(input))
        /\ shader = SHADER_TEMPLATE_U32 => FirstN(values) = ArgSortOf(FirstN(input))
        /\ shader = MARK_RUN_STARTS_SHADER_U32 =>
              /\ FirstN(run_mapping) = RunMappingOf(FirstN(input))
              /\ run_count = Cardinality(RunStartsOf(FirstN(input)))
              /\ \A i \in RunStartsOf(FirstN(input)) : run_starts[run_mapping[i] - 1] = i
        /\ (shader = GATHER_BY_SHADER_TEMPLATE /\ BufLen(input) = BufLen(by) /\ Closed) =>
              FirstN(output) = GatherOf(FirstN(by), FirstN(input))
        /\ (shader = SCATTER_BY_SHADER_TEMPLATE /\ Closed) =>
              FirstN(output) = ScatterOf(FirstN(by), FirstN(input))

\* A sort-by of the first two of three elements.
C26_Witness ==
    /\ Finished /\ shader = SHADER_TEMPLATE_U32
    /\ dispatch_indirect /\ count = 2
    /\ input = [i \in 0 .. 2 |-> <<9, 2, 5>>[i + 1]]
    /\ data = [i \in 0 .. 2 |-> <<2, 9, 5>>[i + 1]]
    /\ values = [i \in 0 .. 2 |-> <<1, 0, 2>>[i + 1]]

----------------------------------------------------------------------------
(* Claims about the internal buffers. *)

\* A dispatch of a kernel that takes its IDs from the group counter and
\* looks back through the group state.
IsLookBack(cmd) ==
    IsDispatch(cmd) /\ cmd.kernel \in {"prefix_sum", "bucket_scatter"}

\* A status record no workgroup has published in.
Unused(rec) ==
    IF shader \in SortShaders
    THEN \A d \in Digits : UnpackStatus(rec[d]) = NotReady
    ELSE Tag(rec) = TAG_EMPTY

\* The device is about to start the workgroups of a scan or scatter dispatch.
AboutToLaunch == queue # <<>> /\ wg = <<>> /\ IsLookBack(Head0)

\* C27 (reset before use): over the encodes on one instance and the scatter
\* passes of one sort, every scan or scatter dispatch starts with the group
\* counter at 0 and every status record EMPTY / NotReady, and in the recorded
\* commands each such dispatch comes directly after the clear of the group
\* counter and the clear of the group state.
C27_ResetBeforeUse ==
    /\ AboutToLaunch =>
          /\ group_counter = 0
          /\ \A g \in DOMAIN group_state : Unused(group_state[g])
    /\ \A k \in DOMAIN queue :
          IsLookBack(queue[k]) =>
              /\ k >= 2 => queue[k - 1] = CmdClearGroupState
              /\ k >= 3 => queue[k - 2] = CmdClearGroupCounter

\* The scan dispatch of a second encode is about to start two or more
\* workgroups on a group state the first encode has used.
C27_Witness ==
    /\ AboutToLaunch /\ shader \in ScanShaders
    /\ encodes = 2
    /\ LaunchCount(Head0) >= 2

\* Status records the encode that has just been recorded needs: one per tile
\* of its buffer of N elements.
Needed ==
    IF shader \in SortShaders THEN FallbackGroups(BufLen(data))
    ELSE Workgroups(BufLen(data))

Larger(a, b) == IF a < b THEN b ELSE a

\* C28 (status-buffer capacity): the group state starts with one record; an
\* encode over N elements leaves it at the larger of its length and
\* ceil(N / segment), and leaves the buffer itself in place when it is long
\* enough; nothing else changes its length; so it holds max(1, largest
\* ceil(N / segment) so far) records and never shrinks.  Every scan or scatter
\* dispatch, direct or indirect, starts no more workgroups than it has records.
C28_Capacity ==
    /\ [](/\ BufLen(group_state) >= 1
          /\ AboutToLaunch => LaunchCount(Head0) <= BufLen(group_state)
          /\ (queue # <<>> /\ IsLookBack(Head0)) => Len(wg) <= BufLen(group_state))
    /\ [][IF encodes' # encodes
          THEN /\ BufLen(group_state') = Larger(BufLen(group_state), Needed')
               /\ BufLen(group_state) >= Needed' => group_state' = group_state
          ELSE BufLen(group_state') = BufLen(group_state)]_vars

\* The scan dispatch of a second, shorter encode is about to start fewer
\* workgroups than the group state, grown by the first, has records.
C28_Witness ==
    /\ AboutToLaunch /\ shader \in ScanShaders
    /\ encodes = 2
    /\ BufLen(group_state) >= 2
    /\ Needed < BufLen(group_state)
    /\ LaunchCount(Head0) >= 1

----------------------------------------------------------------------------
(* Claims about the dispatch generator and the count operand. *)

\* Elements per workgroup of a kernel.
SegmentOf(kernel) ==
    CASE kernel = "prefix_sum" -> SEGMENT_SIZE
      [] kernel = "bucket_histogram" -> BUCKET_HISTOGRAM_SEGMENT_SIZE
      [] kernel = "bucket_scatter" -> ScatterSegmentSize
      [] kernel \in {"gather_by", "scatter_by"} -> GROUP_SIZE
      [] kernel \in {"mark_run_starts", "collect_run_starts"} -> GROUPS_SIZE

\* Length of the buffer the host takes the fallback count of a dispatch from.
FallbackLength(cmd) ==
    CASE cmd.kernel \in {"gather_by", "scatter_by"} -> BufLen(Buffer(cmd.bind.data_in))
      [] cmd.kernel \in {"mark_run_starts", "collect_run_starts"} -> BufLen(input)
      [] OTHER -> BufLen(data)

\* Workgroups the host computes for the dispatch in direct mode.
HostWorkgroups(cmd) ==
    IF cmd.kernel = "prefix_sum" THEN Workgroups(BufLen(data)) ELSE cmd.count_x

\* An indirect dispatch is next to execute: the generator recorded before it
\* has run.
IndirectHead == queue # <<>> /\ Head0.op = "dispatch_workgroups_indirect"

\* C29 (dispatch generator result): every indirect dispatch finds in its
\* record x = ceil(n / s), n the count and s the segment size of its kernel;
\* in a sort the one generator has left the histogram record at
\* ceil(n / histogram segment) and the scatter record at ceil(n / scatter
\* segment); when n is the buffer length the record holds the workgroup count
\* the host computes for the direct dispatch.
C29_GeneratedDispatch ==
    IndirectHead =>
        /\ LaunchCount(Head0) = DivCeil(count, SegmentOf(Head0.kernel))
        /\ shader \in SortShaders =>
              /\ histogram_dispatch = DivCeil(count, BUCKET_HISTOGRAM_SEGMENT_SIZE)
              /\ scatter_dispatch = DivCeil(count, ScatterSegmentSize)
        /\ count = FallbackLength(Head0) => LaunchCount(Head0) = HostWorkgroups(Head0)

\* The histogram of a sort of all three elements of a buffer is about to be
\* dispatched on a record of two workgroups.
C29_Witness ==
    /\ IndirectHead /\ Head0.kernel = "bucket_histogram"
    /\ count = MaxSortLen /\ BufLen(data) = MaxSortLen
    /\ histogram_dispatch = 2 /\ scatter_dispatch = 2

\* The kernels dispatched with one workgroup per segment of the input.
SizedKernels ==
    {"prefix_sum", "bucket_histogram", "bucket_scatter", "gather_by", "scatter_by",
     "mark_run_starts", "collect_run_starts"}

\* The step is an encode call of one of the primitives, made with count `c`
\* on the buffers the next state holds.
EncodedWith(c) ==
    \/ PrefixSumEncode(data', c)
    \/ c = NoCount /\ PrefixSumExclusiveEncode(data')
    \/ RadixSortEncode(data', temporary_storage', c, RADIX_GROUPS)
    \/ RadixSortByEncode(data', values', temporary_storage', temporary_values',
                         c, RADIX_GROUPS)
    \/ FindRunsEncode(input', c, data', run_starts')
    \/ GatherByEncode([data_in |-> "data", data_out |-> "output"], c)
    \/ ScatterByEncode([data_in |-> "data", data_out |-> "output"], c)

----------------------------------------------------------------------------
(* Claims about the tail of the scan. *)

\* The workgroup has loaded and reduced its tile.
Reduced(rec) == rec.pc \notin {"start", "reduce"}

\* C31 (tail handling): during and after a scan over n elements, n the count
\* or else the buffer length, the buffer keeps its length and every element
\* at an index >= n keeps its value; a loaded tile holds 0 in every slot at
\* or past n, so the aggregate of a partial tile is the sum of its elements
\* below n; and when the scan has finished every element below n, those of
\* a partial last tile too, holds its prefix sum.
C31_TailHandling ==
    (shader \in ScanShaders /\ encodes > 0) =>
        /\ DOMAIN data = DOMAIN input
        /\ \A i \in DOMAIN data : i >= ElementCount => data[i] = input[i]
        /\ \A w \in DOMAIN wg :
              /\ wg[w].tile # <<>> =>
                    \A k \in DOMAIN wg[w].tile :
                        TileIndex(wg[w].id, k) >= ElementCount => wg[w].tile[k] = 0
              /\ Reduced(wg[w]) => wg[w].aggregate = RefAggregate(wg[w].id)
        /\ Idle => FirstN(data) = ScanOf(FirstN(input))

\* An inclusive scan of the first three of five ones has finished: the
\* second tile was partial, the last two elements are as they were.
C31_Witness ==
    /\ shader = INCLUSIVE_SHADER_U32 /\ ScanFinished
    /\ dispatch_indirect /\ count = 3
    /\ input = [i \in 0 .. 4 |-> 1]
    /\ data = [i \in 0 .. 4 |-> <<1, 2, 3, 1, 1>>[i + 1]]

----------------------------------------------------------------------------
(* Claims about the value type. *)

\* The field lines of the generated struct.
Fields == {k \in DOMAIN code : "field" \in DOMAIN code[k]}

\* The original reading of C32: a size that is not a multiple of 4 surfaces
\* at encode time, that is on an instance init has returned.
C32_AtEncodeTime == panic # "" => code # <<>>

\* C32 (value-type size check): a value type whose size is not a multiple of
\* 4 makes init panic with the message of write_value_type, so that no
\* instance exists and nothing is ever encoded for it; for a size that is a
\* multiple of 4 the source starts with a VALUE_TYPE struct of exactly
\* size / 4 fields, field_0 .. field_(size / 4 - 1), followed by the template.
C32_ValueTypeSize ==
    /\ panic # "" =>
          /\ value_size % 4 # 0
          /\ panic = EXPECTED_MULTIPLE_OF_4
          /\ code = <<>> /\ encodes = 0 /\ queue = <<>>
    /\ code # <<>> =>
          /\ value_size % 4 = 0
          /\ Cardinality(Fields) = value_size \div 4
          /\ {code[k].field : k \in Fields} = 0 .. value_size \div 4 - 1
          /\ code[1].line = "struct VALUE_TYPE {"
          /\ Len(code) = value_size \div 4 + 3
          /\ code[Len(code)].line \in ValueShaders
          /\ encodes = 0 => code[Len(code)].line = shader
    /\ encodes > 0 => code # <<>>

\* init of a gather over a six-byte value type has panicked.
C32_Witness ==
    /\ shader = GATHER_BY_SHADER_TEMPLATE /\ value_size = 6
    /\ panic = EXPECTED_MULTIPLE_OF_4

----------------------------------------------------------------------------
(* Claims about the canonicalization. *)

\* The bits of a float below its sign.
Magnitude(x) == x % SIGN_BIT

\* The pattern of +infinity: exponent all ones, fraction zero.
INFINITY == SIGN_BIT - 2 ^ MANTISSA_BITS

IsNaN(x) == Magnitude(x) > INFINITY

\* The place of a key in the order of its type: the two's complement value
\* of a signed key; for a float -magnitude or +magnitude, which orders
\* non-NaN floats as their values do, -0 and +0 having the same place.
KeyOrder(type, x) ==
    CASE type = "u32" -> x
      [] type = "i32" -> IF SignSet(x) THEN x - 2 ^ KEY_BITS ELSE x
      [] type = "f32" -> IF SignSet(x) THEN 0 - Magnitude(x) ELSE Magnitude(x)

KeyLess(type, a, b) == KeyOrder(type, a) < KeyOrder(type, b)

\* Keys the claim speaks of: every integer, every float that is not a NaN.
Ordered(type, x) == type = "f32" => ~IsNaN(x)

\* The pair is (-0.0, +0.0).
SignedZeros(type, a, b) == type = "f32" /\ a = SIGN_BIT /\ b = 0

\* The claim as stated: a < b exactly when canon(a) < canon(b).
C33_OrderExactly ==
    (canonical # <<>> /\ Ordered(key_type, key_bits[1]) /\ Ordered(key_type, key_bits[2])) =>
        (KeyLess(key_type, key_bits[1], key_bits[2]) <=> canonical[1] < canonical[2])

\* C33 (canonicalization round trip): the transform followed by its inverse
\* returns the original pattern; for keys other than NaN a < b implies
\* canon(a) < canon(b), and canon(a) < canon(b) implies a < b except for
\* the pair (-0.0, +0.0), which compare equal as floats and are canonicalized
\* to adjacent patterns, -0.0 first; distinct keys have distinct canonical
\* patterns.
C33_Canonicalization ==
    /\ restored # <<>> => restored = key_bits
    /\ (canonical # <<>> /\ Ordered(key_type, key_bits[1]) /\ Ordered(key_type, key_bits[2])) =>
          /\ KeyLess(key_type, key_bits[1], key_bits[2]) => canonical[1] < canonical[2]
          /\ canonical[1] < canonical[2] =>
                \/ KeyLess(key_type, key_bits[1], key_bits[2])
                \/ SignedZeros(key_type, key_bits[1], key_bits[2])
          /\ SignedZeros(key_type, key_bits[1], key_bits[2]) => canonical[2] = canonical[1] + 1
          /\ key_bits[1] # key_bits[2] => canonical[1] # canonical[2]

\* A negative and a positive float have gone through the transform and back.
C33_Witness ==
    /\ key_type = "f32" /\ restored # <<>>
    /\ SignSet(key_bits[1]) /\ ~SignSet(key_bits[2])
    /\ ~IsNaN(key_bits[1]) /\ ~IsNaN(key_bits[2])
    /\ Magnitude(key_bits[1]) > Magnitude(key_bits[2]) /\ Magnitude(key_bits[2]) > 0
    /\ canonical[1] < canonical[2]

----------------------------------------------------------------------------
(* Claims about a scatter whose indices are not a permutation. *)

\* The threads that write to destination k.
Writers(k) == {i \in DOMAIN by : i < ElementCount /\ by[i] = k}

\* C34 (scatter with duplicate indices): after a scatter by an index buffer
\* that is not a permutation has executed, every destination k with writers
\* holds source[i] of one of its own writers i, whichever wrote last; a
\* destination with a single writer holds that writer's source[i]; a
\* destination without writers is untouched; and the encode and the device
\* have reported nothing.
C34_DuplicateIndices ==
    ScatterFinished =>
        /\ \A k \in DOMAIN output :
              /\ Writers(k) = {} => output[k] = 0
              /\ Writers(k) # {} => \E i \in Writers(k) : output[k] = input[i]
              /\ \A i \in Writers(k) : Writers(k) = {i} => output[k] = input[i]
        /\ panic = ""
        /\ encodes = 1

\* Threads 0 and 1 both wrote to destination 0 and the write of thread 0
\* landed last; the slot of thread 2 is as a permutation would leave it.
C34_Witness ==
    /\ ScatterFinished /\ ~dispatch_indirect
    /\ by = [i \in 0 .. 2 |-> <<0, 0, 2>>[i + 1]]
    /\ input = [i \in 0 .. 2 |-> <<1, 2, 2>>[i + 1]]
    /\ output = [i \in 0 .. 2 |-> <<1, 0, 2>>[i + 1]]

----------------------------------------------------------------------------
(* First workgroup shortcut (specification 4.1, steps 3 to 5). *)

\* Positions of a scan workgroup before its first publication is complete.
BeforePublish == {"start", "reduce", "publish", "publish_status"}

\* Positions of a scan workgroup inside its look-back.
InLookBack == {"lookback", "read_value"}

\* Positions of a scan workgroup after its look-back, before the GLOBAL tag
\* is in place.
PublishingGlobal == {"publish_global", "publish_global_status"}

\* C35 (first workgroup shortcut): the workgroup holding ID 0 never enters a
\* look-back, its record is never LOCAL, and once it has published the record
\* is (GLOBAL, a_0); the record of a workgroup with ID g > 0 is (LOCAL, a_g)
\* during the whole of its look-back, is EMPTY before, and is GLOBAL only
\* when the look-back has ended, and then it holds p + a_g.
C35_FirstWorkgroup ==
    (shader \in ScanShaders /\ InDispatch) =>
        \A w \in DOMAIN wg :
            LET rec == wg[w]
                g == rec.id
                pub == group_state[g]
            IN  rec.pc # "start" =>
                  IF g = 0
                  THEN /\ rec.pc \notin InLookBack \cup PublishingGlobal
                       /\ rec.j = 0 /\ rec.prefix = 0
                       /\ Tag(pub) # TAG_LOCAL
                       /\ rec.pc \in {"write", "done"} =>
                              /\ Tag(pub) = TAG_GLOBAL
                              /\ ValueFor(pub, TAG_GLOBAL) = rec.aggregate
                  ELSE /\ rec.pc \in {"reduce", "publish"} => Tag(pub) = TAG_EMPTY
                       /\ rec.pc \in InLookBack \cup PublishingGlobal =>
                              /\ Tag(pub) = TAG_LOCAL
                              /\ ValueFor(pub, TAG_LOCAL) = rec.aggregate
                       /\ Tag(pub) = TAG_GLOBAL =>
                              /\ rec.pc \in {"write", "done"}
                              /\ ValueFor(pub, TAG_GLOBAL) =
                                     Add32(rec.prefix, rec.aggregate)

\* Witness of C35: workgroup 0 has published GLOBAL with a non-zero aggregate
\* without a look-back while workgroup 1 is LOCAL inside its look-back.
C35_Witness ==
    /\ shader \in ScanShaders /\ InDispatch
    /\ \E w, v \in DOMAIN wg :
        /\ wg[w].id = 0 /\ wg[w].pc = "write" /\ wg[w].aggregate > 0
        /\ Tag(group_state[0]) = TAG_GLOBAL
        /\ wg[v].id = 1 /\ wg[v].pc \in InLookBack
        /\ Tag(group_state[1]) = TAG_LOCAL

----------------------------------------------------------------------------
(* Find-runs command order (find_runs/mod.rs, FindRuns::encode). *)

\* The stage names of a command list, in recorded order.
Recorded(q) == [i \in 1 .. Len(q) |-> Stage(q[i])]

\* The generator a FindRuns encode with a count records for itself and the one
\* its scan records.
Generators(indirect) == IF indirect THEN <<"generate_dispatch">> ELSE <<>>

\* The scan of run_mapping is the next command and has not been launched.
ScanNext == RunsHead("prefix_sum") /\ wg = <<>>

----------------------------------------------------------------------------
(* The collect stage of find-runs (specification 4.9, stage 3). *)

\* A dispatch of the collect kernel is executing.
Collecting == RunsHead("collect_run_starts") /\ wg # <<>>

\* The threads of the executing dispatch that are below the count.
LaunchedThreads == UNION {RunThreads(wg[w].id) : w \in DOMAIN wg}

\* The threads of the executing dispatch that write slot r of run_starts.
CollectWriters(r) ==
    {i \in LaunchedThreads :
        i \in RunStartThreads(i \div GROUPS_SIZE) /\ run_mapping[i] - 1 = r}

\* The number of runs the resolve stage will report.
RunsBelowCount == run_mapping[count - 1]

\* The first element of run r (0-based) of the recorded data.
RunStart(r) == CHOOSE i \in Live : IsRunStart(i) /\ RunIndex(i) = r + 1

\* C37 (collect stage is race-free): during a collect dispatch every slot
\* run_starts[r] with r below the number of runs has exactly one writing
\* thread and no other slot has any; a thread that runs writes its index i to
\* run_starts[run_mapping[i] - 1] when i = 0 or run_mapping[i - 1] differs
\* from run_mapping[i], and writes nothing otherwise; and when the dispatch
\* has finished, whatever the order of the threads, slot r below the number
\* of runs holds the first index of run r and the other slots are untouched.
C37_CollectRaceFree ==
    /\ [](Collecting =>
            \A r \in DOMAIN run_starts :
                Cardinality(CollectWriters(r)) = IF r < RunsBelowCount THEN 1 ELSE 0)
    /\ [][(Collecting /\ wg' # <<>>) =>
            \A w \in DOMAIN wg : \A i \in wg[w].pending \ wg'[w].pending :
                IF i = 0 \/ run_mapping[i - 1] # run_mapping[i]
                THEN run_starts' = [run_starts EXCEPT ![run_mapping[i] - 1] = i]
                ELSE run_starts' = run_starts]_vars
    /\ []((Collecting /\ AllDone) =>
            \A r \in DOMAIN run_starts :
                run_starts[r] = IF r < RunsBelowCount THEN RunStart(r)
                                ELSE Stale(BufLen(run_starts))[r])

\* Witness of C37: the collect dispatch over 0, 1, 1, 0 has finished; the
\* second workgroup held a thread that wrote (3) and one that did not (2),
\* and the last slot was left as the caller passed it.
C37_Witness ==
    /\ Collecting /\ AllDone /\ Len(wg) = 2
    /\ input = [i \in 0 .. 3 |-> <<0, 1, 1, 0>>[i + 1]]
    /\ run_mapping = [i \in 0 .. 3 |-> <<1, 2, 2, 3>>[i + 1]]
    /\ run_starts = [i \in 0 .. 3 |-> <<0, 1, 3, 3>>[i + 1]]

----------------------------------------------------------------------------
(* The range of the look-back (specification 4.1, step 4). *)

\* The sum of the aggregates of the tiles j + 1 .. g - 1: what a look-back of
\* workgroup g that stands at index j has added if it added each LOCAL value
\* once.
PassedOver(g, j) == RefExclusivePrefix(g) - RefExclusivePrefix(j + 1)

\* C38 (look-back stays in range): during a scan dispatch a workgroup g inside
\* its look-back stands at an index j with 0 <= j <= g - 1 that the status
\* buffer holds, and has added exactly the aggregates of the tiles j + 1 to
\* g - 1; no workgroup's index is ever below 0; entry 0 is never LOCAL; and a
\* step of a look-back leaves the index alone or moves it from j > 0 to j - 1
\* over a published record.
C38_LookBackRange ==
    /\ []((shader \in ScanShaders /\ InDispatch) =>
            /\ Tag(group_state[0]) \in {TAG_EMPTY, TAG_GLOBAL}
            /\ \A w \in DOMAIN wg :
                  /\ wg[w].j >= 0
                  /\ wg[w].pc \in InLookBack =>
                        /\ wg[w].id > 0
                        /\ wg[w].j \in 0 .. wg[w].id - 1
                        /\ wg[w].j \in DOMAIN group_state
                        /\ wg[w].prefix = PassedOver(wg[w].id, wg[w].j))
    /\ [][(shader \in ScanShaders /\ InDispatch /\ wg' # <<>>) =>
            \A w \in DOMAIN wg :
                wg[w].pc \in InLookBack =>
                    \/ wg'[w].j = wg[w].j
                    \/ /\ wg'[w].j = wg[w].j - 1
                       /\ wg[w].j > 0
                       /\ Tag(group_state[wg[w].j]) # TAG_EMPTY]_vars

\* Witness of C38: workgroup 2 has passed over the LOCAL record of workgroup 1
\* and waits at index 0, which is still EMPTY.
C38_Witness ==
    /\ shader \in ScanShaders /\ InDispatch
    /\ Tag(group_state[0]) = TAG_EMPTY
    /\ \E w \in DOMAIN wg :
        /\ wg[w].id = 2 /\ wg[w].pc = "lookback" /\ wg[w].j = 0
        /\ wg[w].prefix > 0 /\ wg[w].prefix = PassedOver(2, 0)

----------------------------------------------------------------------------
(* The uniforms of the scatter passes (bucket_scatter/mod.rs,
   bucket_scatter_by/mod.rs: one create_buffer per encode). *)

\* The index of the scatter pass at the head of the queue, counted from the
\* passes a full sort records and those still in the queue.
PassAtHead == RADIX_GROUPS - Len(ScatterCmds(queue))

\* The digit the pass at the head of the queue sorts by.
PassDigit(key) == DigitOf(key, RADIX_SIZE * PassAtHead)

\* C39 (per-pass uniforms): a sort encode records all RADIX_GROUPS scatter
\* passes before any kernel runs, pass i with uniforms radix_group = i and
\* radix_offset = RADIX_SIZE * i; a recorded command never changes while it
\* waits, the queue only loses its head; and the kernel of pass i, counted by
\* its position, reads radix_group = i and radix_offset = RADIX_SIZE * i: its
\* tiles carry digit i of the keys and its writes start at row i of the
\* global offsets.
C39_PerPassUniforms ==
    /\ [][encodes' = encodes + 1 =>
            LET s == ScatterCmds(queue')
            IN  /\ Len(s) = RADIX_GROUPS /\ wg' = <<>>
                /\ \A i \in 1 .. Len(s) :
                      s[i].uniforms = [radix_offset |-> RADIX_SIZE * (i - 1),
                                       radix_group |-> i - 1]]_vars
    /\ [][\/ encodes' = encodes + 1
          \/ queue' = queue
          \/ queue # <<>> /\ queue' = Tail(queue)]_vars
    /\ [](ScatterRunning =>
            LET keys_in == Buffer(Head0.bind.keys_in)
                keys_out == Buffer(Head0.bind.keys_out)
            IN  /\ Head0.uniforms.radix_group = PassAtHead
                /\ Head0.uniforms.radix_offset = RADIX_SIZE * PassAtHead
                /\ \A w \in DOMAIN wg : \A k \in DOMAIN wg[w].tile :
                      wg[w].tile[k].valid =>
                          wg[w].tile[k].digit = PassDigit(wg[w].tile[k].key)
                /\ (wg # <<>> /\ AllDone) =>
                      \A i \in Live :
                          keys_out[global_bucket_data[PassAtHead][PassDigit(keys_in[i])]
                                   + Cardinality({j \in Live :
                                        j < i /\ PassDigit(keys_in[j]) = PassDigit(keys_in[i])})]
                              = keys_in[i])

\* Witness of C39: the third recorded pass has executed while the fourth is
\* still in the queue behind it, on keys that differ in the digit of that pass.
C39_Witness ==
    /\ ScatterRunning /\ wg # <<>> /\ AllDone
    /\ PassAtHead = 2 /\ Len(ScatterCmds(queue)) = 2
    /\ Head0.uniforms = Uniforms(2)
    /\ \E i, j \in Live : PassDigit(input[i]) # PassDigit(input[j])

----------------------------------------------------------------------------
(* Indirect records and the dispatches that consume them. *)

\* The record the indirect dispatch of a kernel is recorded on: each
\* instance's own `dispatch`, FindRuns.dispatch for mark and collect, and the
\* two records of the sort.
RecordOf(kernel) ==
    CASE kernel = "bucket_histogram" -> "histogram_dispatch"
      [] kernel = "bucket_scatter" -> "scatter_dispatch"
      [] kernel \in {"mark_run_starts", "collect_run_starts"} -> "find_runs_dispatch"
      [] OTHER -> "dispatch"

\* The records a command generates, each with the segment size it divides
\* the count by.
Generates(cmd) ==
    CASE cmd = CmdGenerateDispatch ->
             {[record |-> "dispatch", segment |-> SEGMENT_SIZE]}
      [] cmd = CmdGenerateDispatches ->
             {[record |-> "histogram_dispatch", segment |-> SegmentSizes.histogram],
              [record |-> "scatter_dispatch", segment |-> SegmentSizes.scatter]}
      [] cmd.op = "generate_dispatch" /\ cmd # CmdGenerateDispatch ->
             {[record |-> cmd.dispatch, segment |-> cmd.group_size]}
      [] OTHER -> {}

\* The positions before k of a command list that generate the record the
\* dispatch at k launches from.
GeneratorsBefore(q, k) ==
    {g \in 1 .. k - 1 : \E r \in Generates(q[g]) : r.record = RecordOf(q[k].kernel)}

\* The positions of the indirect dispatches of a command list.
IndirectAt(q) == {k \in 1 .. Len(q) : q[k].op = "dispatch_workgroups_indirect"}

====
